---- MODULE Spec2Model ----
(***************************************************************************)
(* A model of the content-analyzer's provider layer:                       *)
(*   - APIRouter (analyze / tryFallback / normalizeResponse),              *)
(*   - the provider adapters (AIProvider and its four subclasses),         *)
(*   - the ai-suggestions function (handler and parseAIResponse),          *)
(*   - the analyze function's parseAIResponse.                             *)
(* Texts are sequences of tokens; JSON.parse is a parser over them.        *)
(***************************************************************************)
EXTENDS Integers, Sequences, FiniteSets, TLC

VARIABLES
    providers,       \* APIRouter.providers: the registered provider names
    apiKey,          \* AIProvider.apiKey of each registered adapter (TRUE: a key is set)
    activeProvider,  \* APIRouter.activeProvider
    pc,              \* position of the analyze request in flight
    phase,           \* "primary" (analyze's try block) or "fallback" (tryFallback's loop)
    cur,             \* the provider whose analyze call is in progress
    params,          \* the params argument of the request
    fallbackOrder,   \* tryFallback: the providers the for loop still has to visit
    calls,           \* provider.analyze invocations of this request: <<[provider, prompt]>>
    posts,           \* HTTP POSTs issued by the adapters in this request
    failures,        \* console.error records of failed providers in this request
    lastError,       \* the error most recently thrown by an adapter in this request
    httpStatus,      \* response.status of the fetch that settled last (0: fetch rejected)
    response,        \* the raw response an adapter returned
    outcome,         \* what analyze returned or threw
    before           \* activeProvider and registry when the request started

routerVars == <<providers, apiKey, activeProvider, pc, phase, cur, params,
                fallbackOrder, calls, posts, failures, lastError, httpStatus,
                response, outcome, before>>

VARIABLES
    input,           \* parseAIResponse's arguments: [content, post]
    parsePc,         \* "input", then "parsed" once both parsers ran
    analysis,        \* what the analyze function's parseAIResponse gave
    suggestions      \* what the ai-suggestions parseAIResponse gave

parseVars == <<input, parsePc, analysis, suggestions>>

VARIABLES
    sgPc,            \* position of the ai-suggestions handler
    sgReq,           \* the request: method, body, goal, provider, keys
    sgCalls,         \* the generateWith<Provider> calls made for the request
    sgReply,         \* the text the called model answered
    sgResp           \* the handler's response: statusCode and body fields

suggestVars == <<sgPc, sgReq, sgCalls, sgReply, sgResp>>

VARIABLES
    fn,              \* the deployed function whose module state this is
    env,             \* process.env: [hasKey, devMode]
    srvPc,           \* position of the request being served
    srvReq,          \* the request
    limit,           \* rateLimiter: points consumed in the current window
    rejected,        \* rateLimiter.consume rejected the request
    pending,         \* indices of the per-post calls that have not settled
    replies,         \* per post index: what parseAIResponse returned for it
    srvCalls,        \* provider calls started for the request
    srvResp,         \* the response
    store,           \* userSavedData, the entry of the one user
    storeBefore      \* store when the request arrived

serverVars == <<fn, env, srvPc, srvReq, limit, rejected, pending, replies,
                srvCalls, srvResp, store, storeBefore>>

VARIABLES
    enPc,            \* position of the enhancer call: idle, returned, raised
    mem,             \* the objects and arrays, by address
    memBefore,       \* mem when the enhancer was called
    arg,             \* address of the object handed to the enhancer
    ret,             \* address of the object it returned
    top,             \* the highest address in use
    inputTop         \* top when the enhancer was called

enhanceVars == <<enPc, mem, memBefore, arg, ret, top, inputTop>>

VARIABLES
    localStorage,    \* the browser's localStorage: salt, secure and legacy entries
    salt,            \* this.salt of the current SecureStorage instance
    lastSaved,       \* per provider: the key stored by the last save, <<>> once removed
    got              \* the last getKey call: its provider and what it returned

storageVars == <<localStorage, salt, lastSaved, got>>

VARIABLES
    userSavedData,   \* save-data: the Map from user id to the user's collections
    saveHits,        \* points the rate limiter has consumed for the client IP
    generated,       \* ids generated so far
    saveReq,         \* method, x-user-id header and type of the last request
    saveResp         \* its response

saveVars == <<userSavedData, saveHits, generated, saveReq, saveResp>>

vars == <<routerVars, parseVars, suggestVars, serverVars, enhanceVars, storageVars, saveVars>>

\* what the actions of one component leave alone
notRouter == <<parseVars, suggestVars, serverVars, enhanceVars, storageVars, saveVars>>
notParse == <<routerVars, suggestVars, serverVars, enhanceVars, storageVars, saveVars>>
notSuggest == <<routerVars, parseVars, serverVars, enhanceVars, storageVars, saveVars>>
notServer == <<routerVars, parseVars, suggestVars, enhanceVars, storageVars, saveVars>>
notEnhance == <<routerVars, parseVars, suggestVars, serverVars, storageVars, saveVars>>
notStorage == <<routerVars, parseVars, suggestVars, serverVars, enhanceVars, saveVars>>
notSave == <<routerVars, parseVars, suggestVars, serverVars, enhanceVars, storageVars>>

Null == "null"

NoParams == [niche |-> "", platform |-> "none", minLikes |-> FALSE]
NoError == [message |-> "", provider |-> Null, cause |-> Null]
\* the JSON body `null`, and no body received yet
NullResponse == [envelope |-> "null", text |-> <<>>]
NoResponse == [envelope |-> "none", text |-> <<>>]
NoResult == [provider |-> Null, results |-> <<>>, error |-> Null]
NoOutcome == [kind |-> "none", value |-> NoResult, error |-> NoError]

\* the names normalizeResponse and tryFallback know
KnownProviders == {"openai", "grok", "claude", "gemini"}

\* names a provider can be registered under ("custom": any other name)
ProviderNames == KnownProviders \cup {"custom"}

\* a value that is no string: an absent field, null or undefined
Missing == <<"(missing)">>

----------------------------------------------------------------------------
(* JSON values and JSON.parse over token sequences.                        *)
(* Tokens: "[" "]" "," punctuation; "{}" an object literal; "null" the     *)
(* literal null; "\n" whitespace; anything else is not JSON ("fence" is a  *)
(* Markdown code fence of three backticks, "x" any other text).            *)

JNull == [kind |-> "null", items |-> <<>>]
JObject == [kind |-> "object", items |-> <<>>]
JArray(xs) == [kind |-> "array", items |-> xs]

NoParse == [ok |-> FALSE, val |-> JNull, rest |-> <<>>]

RECURSIVE ParseValue(_)
RECURSIVE ParseElems(_, _)

\* one JSON value at the head of toks: [ok, val, rest]
ParseValue(toks) ==
    IF toks = <<>> THEN NoParse
    ELSE IF Head(toks) = "{}" THEN [ok |-> TRUE, val |-> JObject, rest |-> Tail(toks)]
    ELSE IF Head(toks) = "null" THEN [ok |-> TRUE, val |-> JNull, rest |-> Tail(toks)]
    ELSE IF Head(toks) = "["
         THEN IF Tail(toks) # <<>> /\ Head(Tail(toks)) = "]"
              THEN [ok |-> TRUE, val |-> JArray(<<>>), rest |-> Tail(Tail(toks))]
              ELSE ParseElems(Tail(toks), <<>>)
    ELSE NoParse

\* the elements of an array after "[" or ",": value ("," value)* "]"
ParseElems(toks, acc) ==
    LET v == ParseValue(toks) IN
    IF ~v.ok \/ v.rest = <<>> THEN NoParse
    ELSE IF Head(v.rest) = "]"
         THEN [ok |-> TRUE, val |-> JArray(Append(acc, v.val)), rest |-> Tail(v.rest)]
    ELSE IF Head(v.rest) = ","
         THEN ParseElems(Tail(v.rest), Append(acc, v.val))
    ELSE NoParse

IsSpace(t) == t = "\n"

\* JSON.parse(text): [ok |-> FALSE] when it throws SyntaxError
JSONParse(text) ==
    LET toks == SelectSeq(text, LAMBDA t : ~IsSpace(t))
        v == ParseValue(toks)
    IN IF v.ok /\ v.rest = <<>> THEN [ok |-> TRUE, val |-> v.val]
       ELSE [ok |-> FALSE, val |-> JNull]

----------------------------------------------------------------------------
(* Texts.  A text is the concatenation of its tokens.  Missing stands for  *)
(* a value that is not a string (null or undefined).                       *)

MaxLen == 3

\* tokens of a reply that is meant to be JSON
JsonAlphabet == {"[", "]", ",", "{}", "null", "x", "fence", "json", "\n"}

\* tokens of a reply written as headed sections
ProseAlphabet ==
    {"\n", "WHY", "why", "viral", "SHOOT", "PR", "TAKEAWAY", ":", "-", "1.", "x"}

SeqsUpTo(alphabet, n) == UNION { [1..k -> alphabet] : k \in 0..n }

IsString(t) == t # Missing

RECURSIVE TrimStart(_)
TrimStart(s) == IF s # <<>> /\ IsSpace(Head(s)) THEN TrimStart(Tail(s)) ELSE s

RECURSIVE TrimEnd(_)
TrimEnd(s) ==
    IF s # <<>> /\ IsSpace(s[Len(s)]) THEN TrimEnd(SubSeq(s, 1, Len(s) - 1)) ELSE s

\* String.prototype.trim
Trim(s) == TrimEnd(TrimStart(s))

\* indexOf / lastIndexOf, 1-based, 0 when absent
IndexOf(s, t) ==
    IF \E i \in DOMAIN s : s[i] = t
    THEN CHOOSE i \in DOMAIN s : s[i] = t /\ \A j \in 1..(i - 1) : s[j] # t
    ELSE 0

LastIndexOf(s, t) ==
    IF \E i \in DOMAIN s : s[i] = t
    THEN CHOOSE i \in DOMAIN s : s[i] = t /\ \A j \in (i + 1)..Len(s) : s[j] # t
    ELSE 0

----------------------------------------------------------------------------
(* ai-suggestions.js: parseAIResponse(response)                            *)

\* response.match of the Markdown fence pattern: an opening fence, an optional
\* json tag and newline, the shortest capture, an optional newline, a closing fence
FenceMatch(s) ==
    LET open == IndexOf(s, "fence")
        after == IF open = 0 THEN <<>> ELSE SubSeq(s, open + 1, Len(s))
        close == IndexOf(after, "fence")
    IN IF open = 0 \/ close = 0 THEN [found |-> FALSE, capture |-> <<>>]
       ELSE LET mid == SubSeq(after, 1, close - 1)
                a == IF mid # <<>> /\ Head(mid) = "json" THEN Tail(mid) ELSE mid
                b == IF a # <<>> /\ Head(a) = "\n" THEN Tail(a) ELSE a
                c == IF b # <<>> /\ b[Len(b)] = "\n"
                     THEN SubSeq(b, 1, Len(b) - 1) ELSE b
            IN [found |-> TRUE, capture |-> c]

\* jsonStr.substring(startIdx, endIdx + 1), from the first opening bracket to
\* the last closing bracket
\* (substring swaps its arguments when the first is the larger)
BracketSlice(s) ==
    LET start == IndexOf(s, "[")
        end == LastIndexOf(s, "]")
    IN IF start = 0 \/ end = 0 THEN s
       ELSE IF start - 1 <= end THEN SubSeq(s, start, end)
       ELSE SubSeq(s, end + 1, start - 1)

SuggestionRaised == [raised |-> TRUE, list |-> <<>>]

\* one mapped item: the fields the item lacks get their defaults
Suggestion(item, index) ==
    [index |-> index, title |-> "Content Idea", platform |-> "Instagram",
     from |-> item.kind]

\* parseAIResponse(response): the list of suggestions, or raised when it throws
\* 'Failed to parse AI response'
ParseSuggestions(resp) ==
    IF ~IsString(resp) THEN SuggestionRaised
    ELSE LET m == FenceMatch(resp)
             jsonStr == BracketSlice(IF m.found THEN m.capture ELSE resp)
             parsed == JSONParse(jsonStr)
             items == IF parsed.val.kind = "array" THEN parsed.val.items
                      ELSE <<parsed.val>>
         IN IF ~parsed.ok THEN SuggestionRaised
            ELSE IF \E i \in DOMAIN items : items[i].kind = "null"
                 THEN SuggestionRaised
            ELSE [raised |-> FALSE,
                  list |-> [i \in DOMAIN items |-> Suggestion(items[i], i)]]

----------------------------------------------------------------------------
(* analyze.js: parseAIResponse(aiContent, originalPost)                    *)

IsUpperOrSpace(t) == t \in {"WHY", "SHOOT", "PR", "TAKEAWAY", "\n"}
IsNumberDot(t) == t = "1."
IsBullet(t) == t = "-"

\* the keywords a token contains once lower-cased
KeywordsOf(t) ==
    CASE t = "WHY" -> {"why"}
      [] t = "why" -> {"why"}
      [] t = "whyViral" -> {"why", "viral"}
      [] t = "shootIdeas" -> {"shoot"}
      [] t = "prOutline" -> {"pr"}
      [] t = "keyTakeaways" -> {"takeaway"}
      [] t = "viral" -> {"viral"}
      [] t = "SHOOT" -> {"shoot"}
      [] t = "PR" -> {"pr"}
      [] t = "TAKEAWAY" -> {"takeaway"}
      [] t = "photo" -> {"photo"}
      [] t = "Campaign" -> {"campaign"}
      [] t = "lesson" -> {"lesson"}
      [] OTHER -> {}

\* section.toLowerCase().includes(kw)
Includes(section, kw) == \E i \in DOMAIN section : kw \in KeywordsOf(section[i])

\* the split pattern's lookahead at the start of s: upper-case letters or
\* white space up to a colon, or a number and a dot
HeadingAhead(s) ==
    \/ s # <<>> /\ IsNumberDot(Head(s))
    \/ \E m \in 1..(Len(s) - 1) :
           /\ \A k \in 1..m : IsUpperOrSpace(s[k])
           /\ s[m + 1] = ":"

RECURSIVE SplitSections(_, _)
\* aiContent.split at each newline the lookahead follows
SplitSections(s, piece) ==
    LET cuts == {i \in DOMAIN s :
                    s[i] = "\n" /\ HeadingAhead(SubSeq(s, i + 1, Len(s)))}
    IN IF cuts = {} THEN <<piece \o s>>
       ELSE LET cut == CHOOSE i \in cuts : \A j \in cuts : i <= j
            IN <<piece \o SubSeq(s, 1, cut - 1)>>
               \o SplitSections(SubSeq(s, cut + 1, Len(s)), <<>>)

RECURSIVE SplitItems(_, _, _)
\* section.split at a newline and bullet mark (with numbers: or a newline,
\* number and dot)
SplitItems(s, piece, numbers) ==
    IF s = <<>> THEN <<piece>>
    ELSE IF /\ Head(s) = "\n" /\ Len(s) >= 2
            /\ (IsBullet(s[2]) \/ (numbers /\ IsNumberDot(s[2])))
         THEN <<piece>> \o SplitItems(Tail(Tail(s)), <<>>, numbers)
    ELSE SplitItems(Tail(s), Append(piece, Head(s)), numbers)

\* slice(1), trim each piece, drop the empty ones
ListItems(section, numbers) ==
    LET pieces == Tail(SplitItems(section, <<>>, numbers))
        trimmed == [i \in DOMAIN pieces |-> Trim(pieces[i])]
    IN SelectSeq(trimmed, LAMBDA x : x # <<>>)

\* a slice that keeps every entry
TakeAll(s, n) == s

\* .slice(0, n)
Take(s, n) == SubSeq(s, 1, IF Len(s) < n THEN Len(s) ELSE n)

\* section.trim() with no label removed
StripLabelNone(section) == Trim(section)

\* section.replace(label pattern, '').trim(): drops the first colon and what
\* precedes it on its line
StripLabel(section) ==
    LET colon == IndexOf(section, ":")
        lineStart == IF colon = 0 THEN 0
                     ELSE LastIndexOf(SubSeq(section, 1, colon), "\n")
    IN IF colon = 0 THEN Trim(section)
       ELSE Trim(SubSeq(section, 1, lineStart) \o SubSeq(section, colon + 1, Len(section)))

MaxShootIdeas == 5
MaxKeyTakeaways == 3
FullResponseChars == 200

\* the body of sections.forEach with a first branch that asks for viral alone
ApplySectionViralOnly(a, section) ==
    IF Includes(section, "viral")
    THEN [a EXCEPT !.whyViral = StripLabel(section)]
    ELSE IF Includes(section, "photo") \/ Includes(section, "shoot")
    THEN [a EXCEPT !.shootIdeas = Take(ListItems(section, FALSE), MaxShootIdeas)]
    ELSE IF Includes(section, "pr") \/ Includes(section, "campaign")
    THEN [a EXCEPT !.prOutline = ListItems(section, TRUE)]
    ELSE IF Includes(section, "takeaway") \/ Includes(section, "lesson")
    THEN [a EXCEPT !.keyTakeaways = Take(ListItems(section, FALSE), MaxKeyTakeaways)]
    ELSE a

\* the body of sections.forEach
ApplySection(a, section) ==
    IF Includes(section, "why") /\ Includes(section, "viral")
    THEN [a EXCEPT !.whyViral = StripLabel(section)]
    ELSE IF Includes(section, "photo") \/ Includes(section, "shoot")
    THEN [a EXCEPT !.shootIdeas = Take(ListItems(section, FALSE), MaxShootIdeas)]
    ELSE IF Includes(section, "pr") \/ Includes(section, "campaign")
    THEN [a EXCEPT !.prOutline = ListItems(section, TRUE)]
    ELSE IF Includes(section, "takeaway") \/ Includes(section, "lesson")
    THEN [a EXCEPT !.keyTakeaways = Take(ListItems(section, FALSE), MaxKeyTakeaways)]
    ELSE a

RECURSIVE ApplySections(_, _)
ApplySections(a, sections) ==
    IF sections = <<>> THEN a
    ELSE ApplySections(ApplySection(a, Head(sections)), Tail(sections))

\* defaultAnalysis
DefaultAnalysis(post) ==
    [raised |-> FALSE, postId |-> post, whyViral |-> <<>>, shootIdeas |-> <<>>,
     prOutline |-> <<>>, keyTakeaways |-> <<>>, hasFullResponse |-> FALSE,
     fullResponse |-> <<>>]

AnalysisRaised ==
    [raised |-> TRUE, postId |-> Null, whyViral |-> <<>>, shootIdeas |-> <<>>,
     prOutline |-> <<>>, keyTakeaways |-> <<>>, hasFullResponse |-> FALSE,
     fullResponse |-> <<>>]

\* parseAIResponse running JSON.parse(aiContent) before its try block
ParseAnalysisJsonFirst(aiContent, post) ==
    IF post = Null \/ ~JSONParse(aiContent).ok THEN AnalysisRaised
    ELSE [DefaultAnalysis(post) EXCEPT !.whyViral = aiContent]

\* parseAIResponse(aiContent, originalPost); raised: the TypeError of
\* originalPost.id, which is read outside the try block
ParseAnalysis(aiContent, post) ==
    IF post = Null THEN AnalysisRaised
    ELSE IF ~IsString(aiContent)
    THEN [DefaultAnalysis(post) EXCEPT
             !.whyViral = <<"Analysis completed but formatting error occurred">>,
             !.hasFullResponse = TRUE, !.fullResponse = aiContent]
    ELSE LET a == ApplySections(DefaultAnalysis(post), SplitSections(aiContent, <<>>))
         IN IF a.whyViral = <<>> /\ a.shootIdeas = <<>>
            THEN [a EXCEPT
                     !.whyViral = Take(aiContent, FullResponseChars),
                     !.shootIdeas = <<<<"See full analysis for detailed shoot ideas">>>>,
                     !.prOutline = <<<<"See full analysis for PR strategy">>>>,
                     !.keyTakeaways = <<<<"Analysis available in full response">>>>,
                     !.hasFullResponse = TRUE, !.fullResponse = aiContent]
            ELSE a

----------------------------------------------------------------------------
(* APIRouter                                                               *)

ParamsSet ==
    { [niche |-> "fitness", platform |-> "demo", minLikes |-> FALSE],
      [niche |-> "fitness", platform |-> "tiktok", minLikes |-> TRUE],
      [niche |-> "food", platform |-> "none", minLikes |-> FALSE] }

\* buildPrompt(params): the parts of the prompt string, in order
BuildPrompt(p) ==
    <<"Analyze viral content for", p.niche>>
    \o (IF p.platform # "none" /\ p.platform # "demo"
        THEN <<"Platform:", p.platform>> ELSE <<>>)
    \o (IF p.minLikes THEN <<"Minimum likes">> ELSE <<>>)
    \o <<"Format the response as JSON">>

\* where the API of the adapter registered as p puts the answer text
\* (an adapter under another name is taken to be OpenAI-style)
EnvelopeOf(p) ==
    CASE p = "claude" -> "content"
      [] p = "gemini" -> "candidates"
      [] OTHER -> "choices"

\* JSON.stringify(response)
Stringify(resp) == IF resp.envelope = "null" THEN <<"null">> ELSE <<"{}">>

HttpStatuses == {0, 200, 401, 500}   \* 0: fetch itself rejects

\* response.ok
ResponseOk(status) == status \in 200..299

\* a body response.json() cannot parse
InvalidBody == [envelope |-> "invalid", text |-> <<>>]


\* answer texts a model may give
AnswerTexts ==
    { <<>>, <<"x">>, <<"{}">>, <<"null">>, <<"[", "]">>,
      <<"[", "{}", ",", "{}", "]">>, <<"[", "{}">>,
      <<"fence", "json", "\n", "[", "{}", "]", "\n", "fence">> }

\* the bodies an adapter's `await response.json()` can produce for provider p
Responses(p) ==
    {NullResponse, InvalidBody}
    \cup { [envelope |-> EnvelopeOf(p), text |-> t] : t \in AnswerTexts \cup {Missing} }

\* normalizeResponse's switch: the answer text at the provider's path (or the
\* empty string), or the whole response serialised
ExtractContent(resp, provider) ==
    IF provider \in KnownProviders
    THEN IF resp.envelope = EnvelopeOf(provider) /\ resp.text # Missing
         THEN resp.text ELSE <<>>
    ELSE Stringify(resp)

Placeholder(content) ==
    [kind |-> "placeholder", text |-> content, whyViral |-> "Analysis pending",
     shootIdeas |-> <<>>, prOutline |-> <<>>]

\* normalizeResponse returning an empty list for an answer that is not JSON
NormalizeResponseEmptyOnText(resp, provider) ==
    IF resp = NullResponse /\ provider \in KnownProviders
    THEN [provider |-> provider, results |-> <<>>, error |-> "TypeError"]
    ELSE LET parsed == JSONParse(ExtractContent(resp, provider))
         IN [provider |-> provider,
             results |-> IF parsed.ok
                         THEN IF parsed.val.kind = "array"
                              THEN parsed.val.items ELSE <<parsed.val>>
                         ELSE <<>>,
             error |-> Null]

\* normalizeResponse(response, provider)
NormalizeResponse(resp, provider) ==
    IF resp = NullResponse /\ provider \in KnownProviders
    THEN [provider |-> provider, results |-> <<>>, error |-> "TypeError"]
    ELSE LET content == ExtractContent(resp, provider)
             parsed == JSONParse(content)
         IN [provider |-> provider,
             results |-> IF parsed.ok
                         THEN IF parsed.val.kind = "array"
                              THEN parsed.val.items ELSE <<parsed.val>>
                         ELSE <<Placeholder(content)>>,
             error |-> Null]

\* fallbackOrder without the `p !== failedProvider` filter
FallbackOrderKeepsFailed(failedProvider, registered) ==
    SelectSeq(<<"openai", "grok", "claude", "gemini">>, LAMBDA p : p \in registered)

\* fallbackOrder listing the providers in another order
FallbackOrderClaudeFirst(failedProvider, registered) ==
    SelectSeq(<<"openai", "claude", "gemini", "grok">>,
              LAMBDA p : p # failedProvider /\ p \in registered)

\* tryFallback's fallbackOrder
FallbackOrder(failedProvider, registered) ==
    SelectSeq(<<"openai", "grok", "claude", "gemini">>,
              LAMBDA p : p # failedProvider /\ p \in registered)

\* the final throw chaining the last provider error
AllFailedErrorWithCause ==
    [message |-> "All providers failed. Please check your API configurations.",
     provider |-> cur, cause |-> lastError.message]

\* throw new Error('All providers failed. ...') at the end of tryFallback
AllFailedError ==
    [message |-> "All providers failed. Please check your API configurations.",
     provider |-> Null, cause |-> Null]

NoBefore ==
    [activeProvider |-> Null, providers |-> {},
     apiKey |-> [p \in ProviderNames |-> FALSE]]

NoRequest ==
    /\ phase = Null /\ cur = Null /\ params = NoParams /\ fallbackOrder = <<>>
    /\ calls = <<>> /\ posts = <<>> /\ failures = <<>> /\ lastError = NoError
    /\ response = NoResponse /\ outcome = NoOutcome /\ before = NoBefore
    /\ httpStatus = 0

RouterInit ==
    /\ providers = {}
    /\ apiKey = [p \in ProviderNames |-> FALSE]
    /\ activeProvider = Null
    /\ pc = "idle"
    /\ NoRequest

\* registerProvider(name, ProviderFactory.createProvider(name, key))
RegisterProvider(name, key) ==
    /\ pc = "idle"
    /\ providers' = providers \cup {name}
    /\ apiKey' = [apiKey EXCEPT ![name] = key]
    /\ UNCHANGED <<activeProvider, pc, phase, cur, params, fallbackOrder, calls,
                   posts, failures, lastError, httpStatus, response, outcome, before>>
    /\ UNCHANGED notRouter

\* setActiveProvider(name); throws and changes nothing for an unregistered name
SetActiveProvider(name) ==
    /\ pc = "idle"
    /\ name \in providers
    /\ activeProvider' = name
    /\ UNCHANGED <<providers, apiKey, pc, phase, cur, params, fallbackOrder, calls,
                   posts, failures, lastError, httpStatus, response, outcome, before>>
    /\ UNCHANGED notRouter

\* analyze(params) up to the call of provider.analyze(prompt)
Analyze(p) ==
    /\ pc = "idle"
    /\ params' = p
    /\ before' = [activeProvider |-> activeProvider, providers |-> providers,
                  apiKey |-> apiKey]
    /\ IF activeProvider = Null
       THEN /\ outcome' = [kind |-> "error", value |-> NoResult,
                           error |-> [message |-> "No active provider selected",
                                      provider |-> Null, cause |-> Null]]
            /\ pc' = "done"
            /\ UNCHANGED <<phase, cur, calls>>
       ELSE IF activeProvider \notin providers
       THEN /\ outcome' = [kind |-> "error", value |-> NoResult,
                           error |-> [message |-> "Provider not available",
                                      provider |-> activeProvider, cause |-> Null]]
            /\ pc' = "done"
            /\ UNCHANGED <<phase, cur, calls>>
       ELSE /\ phase' = "primary"
            /\ cur' = activeProvider
            /\ calls' = Append(calls, [provider |-> activeProvider,
                                       prompt |-> BuildPrompt(p)])
            /\ pc' = "check"
            /\ UNCHANGED outcome
    /\ UNCHANGED <<providers, apiKey, activeProvider, fallbackOrder, posts,
                   failures, lastError, httpStatus, response>>
    /\ UNCHANGED notRouter

\* analyze(prompt) without the isConfigured() guard
AdapterAnalyzeNoGuard ==
    /\ pc = "check"
    /\ posts' = Append(posts, cur)
    /\ pc' = "fetch"
    /\ UNCHANGED <<providers, apiKey, activeProvider, phase, cur, params,
                   fallbackOrder, calls, failures, lastError, httpStatus, response,
                   outcome, before>>
    /\ UNCHANGED notRouter

\* <Provider>.analyze(prompt): the isConfigured() guard, then fetch(endpoint, POST)
AdapterAnalyze ==
    /\ pc = "check"
    /\ IF ~apiKey[cur]
       THEN /\ lastError' = [message |-> "API key not configured",
                             provider |-> cur, cause |-> Null]
            /\ pc' = "failed"
            /\ UNCHANGED posts
       ELSE /\ posts' = Append(posts, cur)
            /\ pc' = "fetch"
            /\ UNCHANGED lastError
    /\ UNCHANGED <<providers, apiKey, activeProvider, phase, cur, params,
                   fallbackOrder, calls, failures, httpStatus, response, outcome,
                   before>>
    /\ UNCHANGED notRouter

\* the fetch settles: response.ok -> return response.json(), otherwise throw
AdapterResponse(status, body) ==
    /\ pc = "fetch"
    /\ httpStatus' = status
    /\ IF ResponseOk(status) /\ body # InvalidBody
       THEN /\ response' = body
            /\ pc' = "returned"
            /\ UNCHANGED lastError
       ELSE /\ lastError' = [message |-> IF status = 0 THEN "network error"
                                          ELSE IF ResponseOk(status)
                                          THEN "invalid json" ELSE "API error",
                             provider |-> cur, cause |-> Null]
            /\ pc' = "failed"
            /\ UNCHANGED response
    /\ UNCHANGED <<providers, apiKey, activeProvider, phase, cur, params,
                   fallbackOrder, calls, posts, failures, outcome, before>>
    /\ UNCHANGED notRouter

\* the return labelling the result with the provider the request started with
RouterReturnPreferred ==
    /\ pc = "returned"
    /\ outcome' = [kind |-> "result",
                   value |-> NormalizeResponse(response, before.activeProvider),
                   error |-> NoError]
    /\ pc' = "done"
    /\ UNCHANGED <<providers, apiKey, activeProvider, phase, cur, params,
                   fallbackOrder, calls, posts, failures, lastError, httpStatus,
                   response, before>>
    /\ UNCHANGED notRouter

\* return this.normalizeResponse(response, ...) in analyze and in tryFallback
RouterReturn ==
    /\ pc = "returned"
    /\ outcome' = [kind |-> "result",
                   value |-> NormalizeResponse(response,
                                IF phase = "primary" THEN activeProvider ELSE cur),
                   error |-> NoError]
    /\ pc' = "done"
    /\ UNCHANGED <<providers, apiKey, activeProvider, phase, cur, params,
                   fallbackOrder, calls, posts, failures, lastError, httpStatus,
                   response, before>>
    /\ UNCHANGED notRouter

\* a catch block that calls every fallback provider at once
RouterCatchAll ==
    /\ pc = "failed"
    /\ failures' = Append(failures, cur)
    /\ LET order == IF phase = "primary"
                    THEN FallbackOrder(activeProvider, providers)
                    ELSE fallbackOrder
       IN IF order = <<>>
          THEN /\ outcome' = [kind |-> "error", value |-> NoResult,
                               error |-> AllFailedError]
               /\ pc' = "done"
               /\ UNCHANGED <<activeProvider, cur, calls>>
          ELSE /\ activeProvider' = Head(order)
               /\ cur' = Head(order)
               /\ calls' = calls \o [i \in DOMAIN order |->
                                        [provider |-> order[i],
                                         prompt |-> BuildPrompt(params)]]
               /\ pc' = "check"
               /\ UNCHANGED outcome
    /\ fallbackOrder' = <<>>
    /\ phase' = "fallback"
    /\ UNCHANGED <<providers, apiKey, params, posts, lastError, httpStatus, response,
                   before>>
    /\ UNCHANGED notRouter

\* the catch blocks: analyze's (enters tryFallback) and the for loop's (continue),
\* then the next iteration up to providers[provider].analyze(prompt), or the throw
RouterCatch ==
    /\ pc = "failed"
    /\ failures' = Append(failures, cur)
    /\ LET order == IF phase = "primary"
                    THEN FallbackOrder(activeProvider, providers)
                    ELSE fallbackOrder
       IN IF order = <<>>
          THEN /\ outcome' = [kind |-> "error", value |-> NoResult,
                               error |-> AllFailedError]
               /\ pc' = "done"
               /\ fallbackOrder' = <<>>
               /\ UNCHANGED <<activeProvider, cur, calls>>
          ELSE /\ activeProvider' = Head(order)
               /\ cur' = Head(order)
               /\ calls' = Append(calls, [provider |-> Head(order),
                                          prompt |-> BuildPrompt(params)])
               /\ fallbackOrder' = Tail(order)
               /\ pc' = "check"
               /\ UNCHANGED outcome
    /\ phase' = "fallback"
    /\ UNCHANGED <<providers, apiKey, params, posts, lastError, httpStatus, response,
                   before>>
    /\ UNCHANGED notRouter

\* the caller has received the outcome; the router is ready for the next call
Finish ==
    /\ pc = "done"
    /\ pc' = "idle"
    /\ phase' = Null /\ cur' = Null /\ params' = NoParams /\ fallbackOrder' = <<>>
    /\ calls' = <<>> /\ posts' = <<>> /\ failures' = <<>> /\ lastError' = NoError
    /\ response' = NoResponse /\ outcome' = NoOutcome /\ before' = NoBefore
    /\ httpStatus' = 0
    /\ UNCHANGED <<providers, apiKey, activeProvider>>
    /\ UNCHANGED notRouter

RouterNext ==
    \/ \E n \in ProviderNames, k \in BOOLEAN : RegisterProvider(n, k)
    \/ \E n \in ProviderNames : SetActiveProvider(n)
    \/ \E p \in ParamsSet : Analyze(p)
    \/ AdapterAnalyze
    \/ \E s \in HttpStatuses, b \in Responses(cur) : AdapterResponse(s, b)
    \/ RouterReturn
    \/ RouterCatch
    \/ Finish

----------------------------------------------------------------------------
(* The two parseAIResponse functions applied to a reply                    *)

ParseIdle ==
    /\ input = [content |-> <<>>, post |-> Null]
    /\ parsePc = "idle"
    /\ analysis = AnalysisRaised
    /\ suggestions = SuggestionRaised

Posts == {"post-1", Null}

\* longer replies: fenced JSON, truncated JSON, headed sections with bullets
SampleTexts ==
    { <<"fence", "json", "\n", "[", "{}", ",", "{}", "]", "\n", "fence">>,
      <<"x", "fence", "\n", "{}", "\n", "fence", "x">>,
      <<"[", "{}", ",", "{}">>,
      <<"[", "{}", ",", "null", "]">>,
      <<"]", "x", "[">>,
      <<"WHY", "viral", ":", "x", "\n", "SHOOT", ":", "\n", "-", "x", "\n", "-", "x">>,
      <<"x", "\n", "PR", ":", "\n", "1.", "x">>,
      <<"viral", "photo", "\n", "-", "x">>,
      <<"SHOOT", "Campaign", ":", "\n", "-", "x", "\n", "1.", "x">>,
      <<"Campaign", "lesson", "\n", "-", "x", "\n", "TAKEAWAY", ":", "\n", "-", "x">>,
      <<"lesson", "\n", "-", "x", "\n", "-", "x", "\n", "-", "x", "\n", "-", "x">> }

\* a reply longer than the substring(0, 200) cut
LongText == [i \in 1..(FullResponseChars + 1) |-> "x"]

\* the analysis object the prompt describes, as a model could return it in JSON
SchemaRecords ==
    [whyViral : {<<"x">>},
     shootIdeas : {<<>>, <<<<"x">>>>, <<<<"x">>, <<"x">>>>},
     prOutline : {<<>>, <<<<"x">>, <<"x">>>>},
     keyTakeaways : {<<>>, <<<<"x">>>>}]

\* compact JSON, or one field per line
Layouts == {<<>>, <<"\n">>}

RECURSIVE JsonItems(_)
\* the entries of a JSON array, separated by commas
JsonItems(xs) ==
    IF xs = <<>> THEN <<>>
    ELSE IF Len(xs) = 1 THEN Head(xs)
    ELSE Head(xs) \o <<",">> \o JsonItems(Tail(xs))

JsonList(xs) == <<"[">> \o JsonItems(xs) \o <<"]">>

\* JSON.stringify of the analysis object r, nl between the fields
SchemaReply(r, nl) ==
    <<"{">> \o nl \o <<"whyViral", ":">> \o r.whyViral
    \o <<",">> \o nl \o <<"shootIdeas", ":">> \o JsonList(r.shootIdeas)
    \o <<",">> \o nl \o <<"prOutline", ":">> \o JsonList(r.prOutline)
    \o <<",">> \o nl \o <<"keyTakeaways", ":">> \o JsonList(r.keyTakeaways)
    \o nl \o <<"}">>

SchemaReplies == {SchemaReply(r, nl) : r \in SchemaRecords, nl \in Layouts}

ParseInputs ==
    [content : SeqsUpTo(JsonAlphabet, MaxLen) \cup SeqsUpTo(ProseAlphabet, MaxLen)
               \cup SampleTexts \cup SchemaReplies \cup {LongText, Missing},
     post : Posts]

ParseInit ==
    /\ input \in ParseInputs
    /\ parsePc = "input"
    /\ analysis = AnalysisRaised
    /\ suggestions = SuggestionRaised

\* analyze.js: return parseAIResponse(content, post)
RunParseAnalysis ==
    /\ parsePc = "input"
    /\ analysis' = ParseAnalysis(input.content, input.post)
    /\ parsePc' = "analysed"
    /\ UNCHANGED <<input, suggestions>>
    /\ UNCHANGED notParse

\* ai-suggestions.js: return parseAIResponse(response.choices[0].message.content)
RunParseSuggestions ==
    /\ parsePc = "analysed"
    /\ suggestions' = ParseSuggestions(input.content)
    /\ parsePc' = "parsed"
    /\ UNCHANGED <<input, analysis>>
    /\ UNCHANGED notParse

ParseNext == RunParseAnalysis \/ RunParseSuggestions

----------------------------------------------------------------------------
(* ai-suggestions.js: exports.handler                                      *)

SuggestOrder == <<"openai", "claude", "gemini", "grok">>

NoSuggestRequest ==
    [method |-> "POST", bodyOk |-> TRUE, goalOk |-> TRUE, provider |-> Missing[1],
     keys |-> {}]

NoSuggestResponse ==
    [statusCode |-> 0, provider |-> Null, count |-> 0, error |-> ""]

SuggestRequests ==
    [method : {"POST", "GET"}, bodyOk : BOOLEAN, goalOk : BOOLEAN,
     provider : KnownProviders \cup {"auto", "other", Missing[1]},
     keys : SUBSET KnownProviders]

\* texts a model may answer the suggestions prompt with
SuggestTexts ==
    { <<>>, <<"x">>, <<"[", "]">>, <<"[", "{}", ",", "{}", "]">>,
      <<"fence", "json", "\n", "[", "{}", "]", "\n", "fence">>, <<"[", "{}">> }

SuggestInit ==
    /\ sgPc = "idle"
    /\ sgReq = NoSuggestRequest
    /\ sgCalls = <<>>
    /\ sgReply = Missing
    /\ sgResp = NoSuggestResponse

SuggestIdle == SuggestInit

\* const selectedProvider = provider || 'auto'
SelectedProvider(req) == IF req.provider = Missing[1] THEN "auto" ELSE req.provider

\* the guard of the block of provider p: the provider is asked for (or auto)
\* and its key is set
BlockRuns(p, req) ==
    /\ SelectedProvider(req) = "auto" \/ SelectedProvider(req) = p
    /\ p \in req.keys

\* the first of the four blocks that runs, 0 when none does
FirstBlock(req) ==
    IF \E k \in DOMAIN SuggestOrder : BlockRuns(SuggestOrder[k], req)
    THEN CHOOSE k \in DOMAIN SuggestOrder :
             /\ BlockRuns(SuggestOrder[k], req)
             /\ \A j \in 1..(k - 1) : ~BlockRuns(SuggestOrder[j], req)
    ELSE 0

\* the handler up to its first await: method check, JSON.parse(event.body),
\* goal check, then the provider blocks
SuggestHandle(req) ==
    /\ sgPc = "idle"
    /\ sgReq' = req
    /\ IF req.method # "POST"
       THEN /\ sgResp' = [NoSuggestResponse EXCEPT !.statusCode = 405,
                                                   !.error = "Method not allowed"]
            /\ sgPc' = "done"
            /\ UNCHANGED sgCalls
       ELSE IF ~req.bodyOk
       THEN /\ sgResp' = [NoSuggestResponse EXCEPT !.statusCode = 500,
                             !.error = "Failed to generate suggestions: SyntaxError"]
            /\ sgPc' = "done"
            /\ UNCHANGED sgCalls
       ELSE IF ~req.goalOk
       THEN /\ sgResp' = [NoSuggestResponse EXCEPT !.statusCode = 400,
                                                   !.error = "Please provide a goal"]
            /\ sgPc' = "done"
            /\ UNCHANGED sgCalls
       ELSE IF FirstBlock(req) = 0
       THEN /\ sgResp' = [NoSuggestResponse EXCEPT !.statusCode = 503,
                                                   !.error = "No AI providers available"]
            /\ sgPc' = "done"
            /\ UNCHANGED sgCalls
       ELSE /\ sgCalls' = Append(sgCalls, SuggestOrder[FirstBlock(req)])
            /\ sgPc' = "calling"
            /\ UNCHANGED sgResp
    /\ UNCHANGED sgReply
    /\ UNCHANGED notSuggest

\* messages of the errors a provider call can reject with
UpstreamErrors == {"quota exceeded", "socket hang up"}

\* the 500 response of the handler's catch block
SuggestFailure(message) ==
    [NoSuggestResponse EXCEPT !.statusCode = 500,
        !.error = "Failed to generate suggestions: " \o message]

\* the provider call rejects with an error of the given message
SuggestCallFails(err) ==
    /\ sgPc = "calling"
    /\ sgResp' = SuggestFailure(err)
    /\ sgPc' = "done"
    /\ UNCHANGED <<sgReq, sgCalls, sgReply>>
    /\ UNCHANGED notSuggest

\* the provider call returns text: parseAIResponse, then 200 (a list, even an
\* empty one, is truthy, so no later block runs) or the catch's 500
SuggestCallReturns(text) ==
    /\ sgPc = "calling"
    /\ sgReply' = text
    /\ LET r == ParseSuggestions(text) IN
       sgResp' = IF r.raised
                 THEN [NoSuggestResponse EXCEPT !.statusCode = 500,
                          !.error = "Failed to generate suggestions: Failed to parse AI response"]
                 ELSE [statusCode |-> 200, provider |-> SelectedProvider(sgReq),
                       count |-> Len(r.list), error |-> ""]
    /\ sgPc' = "done"
    /\ UNCHANGED <<sgReq, sgCalls>>
    /\ UNCHANGED notSuggest

\* the response has been sent
SuggestDone ==
    /\ sgPc = "done"
    /\ sgPc' = "idle"
    /\ sgReq' = NoSuggestRequest
    /\ sgCalls' = <<>>
    /\ sgReply' = Missing
    /\ sgResp' = NoSuggestResponse
    /\ UNCHANGED notSuggest

SuggestNext ==
    \/ \E req \in SuggestRequests : SuggestHandle(req)
    \/ \E e \in UpstreamErrors : SuggestCallFails(e)
    \/ \E t \in SuggestTexts : SuggestCallReturns(t)
    \/ SuggestDone

----------------------------------------------------------------------------
(* The server side: the analyze function (two implementations), save-data, *)
(* the Express /api/analyze route and getViralContent.  Each is deployed   *)
(* on its own, with its own module state.                                  *)

Functions == {"analyze-1", "analyze-2", "save-data", "express", "viral-content"}

AnalyzePoints == 5
SavePoints == 20
MaxAnalyzed == 5
SaveCap == 100

\* posts a request may carry
MaxPosts == 6

\* new RateLimiterMemory({points, duration: 60})
RatePoints(f) == IF f = "save-data" THEN SavePoints ELSE AnalyzePoints

\* the posts array of a request with n posts
PostsOf(n) == [i \in 1..n |-> "p" \o ToString(i)]

Entries(n, text) == [i \in 1..n |-> <<text>>]

\* an analysis object with fixed lists of the given lengths
CannedAnalysis(id, label, nShoot, nPr, nTakeaways) ==
    [DefaultAnalysis(id) EXCEPT
        !.whyViral = <<label>>,
        !.shootIdeas = Entries(nShoot, label),
        !.prOutline = Entries(nPr, label),
        !.keyTakeaways = Entries(nTakeaways, label)]

\* generateAIAnalysis(posts, analysisType)
GenerateAIAnalysis(ps) ==
    [i \in DOMAIN ps |-> CannedAnalysis(ps[i], "canned", 5, 5, 3)]

\* the reject value of rateLimiter.consume, and Error objects
RateLimiterRes == [name |-> "RateLimiterRes", remainingPoints |-> TRUE, message |-> ""]
ErrorOf(name, message) == [name |-> name, remainingPoints |-> FALSE, message |-> message]

NoServerResponse ==
    [statusCode |-> 0, success |-> FALSE, results |-> <<>>, error |-> "",
     details |-> ""]

Reply(status, error) ==
    [NoServerResponse EXCEPT !.statusCode = status, !.error = error]

Success(results) ==
    [NoServerResponse EXCEPT !.statusCode = 200, !.success = TRUE,
                             !.results = results]

\* a catch block answering 429 for every error of an upstream call
AnalyzeCatchByName(f, error) ==
    IF error.remainingPoints \/ error.name = "APIError"
    THEN Reply(429, "Rate limit exceeded. Please try again later.")
    ELSE Reply(500, "Analysis failed. Please try again.")

\* the catch block of the analyze handler
AnalyzeCatch(f, error) ==
    IF error.remainingPoints
    THEN Reply(429, "Rate limit exceeded. Please try again later.")
    ELSE [Reply(500, "Analysis failed. Please try again.") EXCEPT
             !.details = IF f = "analyze-2" /\ env.devMode
                         THEN error.message ELSE ""]

\* the catch block of the save-data handler
SaveCatch(error) ==
    IF error.remainingPoints
    THEN Reply(429, "Rate limit exceeded. Please try again later.")
    ELSE Reply(500, "Internal server error")

NoServerRequest ==
    [method |-> "", bodyOk |-> TRUE, nPosts |-> 0, provider |-> "", type |-> "",
     id |-> ""]

AnalyzeRequests ==
    [method : {"POST", "GET"}, bodyOk : BOOLEAN, nPosts : 0..MaxPosts,
     provider : {"openai", "other"}, type : {""}, id : {""}]

SaveRequests ==
    [method : {"POST", "GET", "DELETE", "PUT"}, bodyOk : BOOLEAN, nPosts : {0},
     provider : {""}, type : {"post", "bogus", ""}, id : {"a", "b", ""}]

ExpressRequests ==
    [method : {"POST"}, bodyOk : BOOLEAN, nPosts : 0..MaxPosts,
     provider : {""}, type : {""}, id : {""}]

\* niche and platform of a fetch-viral request
ViralRequests ==
    [method : {"POST"}, bodyOk : {TRUE}, nPosts : {0}, provider : {""},
     type : {"fitness", "marketing", "gardening", ""},
     id : {"all", "tiktok", "linkedin", "facebook", ""}]

RECURSIVE Bullets(_)
Bullets(n) == IF n = 0 THEN <<>> ELSE <<"\n", "-", "x">> \o Bullets(n - 1)

\* a reply in headed sections with six shoot ideas and four takeaways
ManyIdeas ==
    <<"WHY", "viral", ":", "x", "\n", "SHOOT", ":">> \o Bullets(6)
    \o <<"\n", "TAKEAWAY", ":">> \o Bullets(4)

\* the contents a model returns for a post
ReplyTexts == {ManyIdeas, <<"x">>}

\* no parseAIResponse result yet for a post
AnalysisPending == [AnalysisRaised EXCEPT !.whyViral = <<"(pending)">>]

NoReplies == [i \in 1..MaxAnalyzed |-> AnalysisPending]

NoStore == [exists |-> FALSE, posts |-> <<>>]

\* const postsToAnalyze = posts.slice(0, 5)
PostsToAnalyze(req) == Take(PostsOf(req.nPosts), MaxAnalyzed)

\* await Promise.all(posts.map(...)): the results by post index
Results(rs) == [i \in 1..srvCalls |-> rs[i]]

ServerIdle ==
    /\ srvPc = "idle"
    /\ srvReq = NoServerRequest
    /\ limit = 0
    /\ rejected = FALSE
    /\ pending = {}
    /\ replies = NoReplies
    /\ srvCalls = 0
    /\ srvResp = NoServerResponse
    /\ store = NoStore
    /\ storeBefore = NoStore

ServerOff ==
    /\ fn = "none" /\ env = [hasKey |-> FALSE, devMode |-> FALSE] /\ ServerIdle

ServerInit ==
    /\ fn \in Functions
    /\ env \in [hasKey : BOOLEAN, devMode : BOOLEAN]
    /\ (fn \notin {"analyze-1", "analyze-2"}) => env = [hasKey |-> FALSE, devMode |-> FALSE]
    /\ (fn = "analyze-1") => ~env.devMode
    /\ ServerIdle

\* the analyze handler up to the await of Promise.all: what it answers at
\* once (pc "done"), or the calls it starts (pc "calling")
AnalyzeEntry(req) ==
    LET ps == PostsToAnalyze(req)
        now(resp) == [pc |-> "done", resp |-> resp, calls |-> 0,
                      consumed |-> TRUE, rejected |-> FALSE]
    IN IF req.method # "POST"
       THEN [now(Reply(405, "Method not allowed")) EXCEPT !.consumed = FALSE]
       ELSE IF limit >= RatePoints(fn)
       THEN [now(AnalyzeCatch(fn, RateLimiterRes)) EXCEPT
                !.consumed = FALSE, !.rejected = TRUE]
       ELSE IF ~req.bodyOk
       THEN now(AnalyzeCatch(fn, ErrorOf("SyntaxError", "Unexpected token")))
       ELSE IF req.nPosts = 0
       THEN now(Reply(400, "Missing or invalid posts array"))
       ELSE IF fn = "analyze-1" /\ req.provider = "other"
       THEN now(Success(GenerateAIAnalysis(ps)))
       ELSE IF ~env.hasKey
       THEN IF fn = "analyze-1"
            THEN now(Success(GenerateAIAnalysis(ps)))
            ELSE now(AnalyzeCatch(fn, ErrorOf("Error", "OpenAI API key is missing")))
       ELSE [now(NoServerResponse) EXCEPT !.pc = "calling", !.calls = Len(ps)]

\* exports.handler of the analyze function, up to its first pending await
AnalyzeHandle(req) ==
    /\ srvPc = "idle" /\ fn \in {"analyze-1", "analyze-2"}
    /\ srvReq' = req
    /\ LET r == AnalyzeEntry(req) IN
       /\ srvPc' = r.pc
       /\ srvResp' = r.resp
       /\ srvCalls' = r.calls
       /\ rejected' = r.rejected
       /\ limit' = IF r.consumed THEN limit + 1 ELSE limit
       /\ pending' = 1..r.calls
    /\ storeBefore' = store
    /\ UNCHANGED <<fn, env, replies, store>>
    /\ UNCHANGED notServer

\* each result stored in the next free slot as its call settles
PostCallReturnsPush(i, text) ==
    /\ srvPc = "calling" /\ i \in pending
    /\ pending' = pending \ {i}
    /\ replies' = [replies EXCEPT ![srvCalls - Cardinality(pending) + 1] =
                                      ParseAnalysis(text, PostsToAnalyze(srvReq)[i])]
    /\ IF pending' = {}
       THEN /\ srvResp' = Success(Results(replies'))
            /\ srvPc' = "done"
       ELSE UNCHANGED <<srvResp, srvPc>>
    /\ UNCHANGED <<fn, env, srvReq, limit, rejected, srvCalls, store, storeBefore>>
    /\ UNCHANGED notServer

\* the provider call for post i returns content: parseAIResponse(content, post);
\* once every call has returned, Promise.all resolves and the handler answers 200
PostCallReturns(i, text) ==
    /\ srvPc = "calling" /\ i \in pending
    /\ pending' = pending \ {i}
    /\ replies' = [replies EXCEPT ![i] = ParseAnalysis(text, PostsToAnalyze(srvReq)[i])]
    /\ IF pending' = {}
       THEN /\ srvResp' = Success(Results(replies'))
            /\ srvPc' = "done"
       ELSE UNCHANGED <<srvResp, srvPc>>
    /\ UNCHANGED <<fn, env, srvReq, limit, rejected, srvCalls, store, storeBefore>>
    /\ UNCHANGED notServer

\* the provider call for post i rejects: Promise.all rejects; the first
\* implementation answers with generateAIAnalysis, the second rethrows
PostCallFails(i, err) ==
    /\ srvPc = "calling" /\ i \in pending
    /\ pending' = pending \ {i}
    /\ srvResp' = IF fn = "analyze-1"
                  THEN Success(GenerateAIAnalysis(PostsToAnalyze(srvReq)))
                  ELSE AnalyzeCatch(fn, ErrorOf("APIError", err))
    /\ srvPc' = "done"
    /\ UNCHANGED <<fn, env, srvReq, limit, rejected, replies, srvCalls, store,
                   storeBefore>>
    /\ UNCHANGED notServer

\* the save-data handler: what it answers and what it stores
SaveEntry(req) ==
    LET now(resp) == [resp |-> resp, store |-> store, consumed |-> TRUE,
                      rejected |-> FALSE]
        has == \E k \in DOMAIN store.posts : store.posts[k] = req.id
    IN IF req.method \notin {"POST", "GET", "DELETE"}
       THEN [now(Reply(405, "Method not allowed")) EXCEPT !.consumed = FALSE]
       ELSE IF limit >= RatePoints(fn)
       THEN [now(SaveCatch(RateLimiterRes)) EXCEPT
                !.consumed = FALSE, !.rejected = TRUE]
       ELSE IF req.method = "GET"
       THEN now(Success(<<>>))
       ELSE IF ~req.bodyOk
       THEN now(SaveCatch(ErrorOf("SyntaxError", "Unexpected token")))
       ELSE IF req.type = "" \/ req.id = ""
       THEN now(Reply(400, "Missing required fields"))
       ELSE IF req.method = "POST"
       THEN IF req.type # "post"
            THEN now(Reply(400, "Invalid type"))
            ELSE [now(Success(<<>>)) EXCEPT
                     !.store = [exists |-> TRUE,
                                posts |-> IF has THEN store.posts
                                          ELSE Take(<<req.id>> \o store.posts, SaveCap)]]
       ELSE IF ~store.exists
       THEN now(Reply(404, "No saved data found"))
       ELSE IF req.type # "post"
       THEN now(SaveCatch(ErrorOf("TypeError", "Cannot read properties of undefined")))
       ELSE IF ~has
       THEN now(Reply(404, "Item not found"))
       ELSE [now(Success(<<>>)) EXCEPT
                !.store = [store EXCEPT
                              !.posts = SelectSeq(store.posts, LAMBDA x : x # req.id)]]

\* exports.handler of save-data
SaveData(req) ==
    /\ srvPc = "idle" /\ fn = "save-data"
    /\ srvReq' = req
    /\ storeBefore' = store
    /\ LET r == SaveEntry(req) IN
       /\ srvResp' = r.resp
       /\ store' = r.store
       /\ rejected' = r.rejected
       /\ limit' = IF r.consumed THEN limit + 1 ELSE limit
    /\ srvPc' = "done"
    /\ UNCHANGED <<fn, env, pending, replies, srvCalls>>
    /\ UNCHANGED notServer

\* app.post('/api/analyze'): a fixed analysis for every post of the request
ExpressAnalyze(req) ==
    /\ srvPc = "idle" /\ fn = "express"
    /\ srvReq' = req
    /\ srvResp' = IF ~req.bodyOk THEN Reply(500, "Failed to analyze content")
                  ELSE Success([i \in 1..req.nPosts |->
                                   CannedAnalysis(PostsOf(req.nPosts)[i], "express", 5, 4, 4)])
    /\ srvPc' = "done"
    /\ storeBefore' = store
    /\ UNCHANGED <<fn, env, limit, rejected, pending, replies, srvCalls, store>>
    /\ UNCHANGED notServer

\* viralContentTemplates: the ids and platforms of the items of a niche
ViralTemplates(niche) ==
    CASE niche = "fitness" ->
             << [id |-> "fit1", platform |-> "tiktok"],
                [id |-> "fit2", platform |-> "instagram"],
                [id |-> "fit3", platform |-> "youtube"],
                [id |-> "fit4", platform |-> "instagram"],
                [id |-> "fit5", platform |-> "tiktok"] >>
      [] niche = "marketing" -> << [id |-> "mkt1", platform |-> "linkedin"] >>
      [] OTHER -> << [id |-> "def1", platform |-> "instagram"] >>

\* getViralContent(niche, platform, timeRange), answered by /api/fetch-viral
GetViralContent(req) ==
    /\ srvPc = "idle" /\ fn = "viral-content"
    /\ srvReq' = req
    /\ LET all == ViralTemplates(req.type)
           match == SelectSeq(all, LAMBDA item : item.platform = req.id)
           content == IF req.id \in {"", "all"} \/ match = <<>> THEN all ELSE match
       IN srvResp' = Success([i \in DOMAIN content |->
                                 CannedAnalysis(content[i].id, "template", 5, 5, 4)])
    /\ srvPc' = "done"
    /\ storeBefore' = store
    /\ UNCHANGED <<fn, env, limit, rejected, pending, replies, srvCalls, store>>
    /\ UNCHANGED notServer

\* the response has been sent
ServerDone ==
    /\ srvPc = "done"
    /\ srvPc' = "idle"
    /\ srvReq' = NoServerRequest
    /\ rejected' = FALSE
    /\ pending' = {}
    /\ replies' = NoReplies
    /\ srvCalls' = 0
    /\ srvResp' = NoServerResponse
    /\ storeBefore' = store
    /\ UNCHANGED <<fn, env, limit, store>>
    /\ UNCHANGED notServer

\* the limiter's 60 second window ends
LimiterWindowEnds ==
    /\ srvPc = "idle" /\ limit > 0
    /\ limit' = 0
    /\ UNCHANGED <<fn, env, srvPc, srvReq, rejected, pending, replies, srvCalls,
                   srvResp, store, storeBefore>>
    /\ UNCHANGED notServer

ServerNext ==
    \/ \E req \in AnalyzeRequests : AnalyzeHandle(req)
    \/ \E i \in 1..MaxAnalyzed, t \in ReplyTexts : PostCallReturns(i, t)
    \/ \E i \in 1..MaxAnalyzed, e \in UpstreamErrors : PostCallFails(i, e)
    \/ \E req \in SaveRequests : SaveData(req)
    \/ \E req \in ExpressRequests : ExpressAnalyze(req)
    \/ \E req \in ViralRequests : GetViralContent(req)
    \/ ServerDone
    \/ LimiterWindowEnds

----------------------------------------------------------------------------
(* ResponseEnhancer.  Objects and arrays are cells of a memory, so that an  *)
(* object handed to the enhancer and the object it returns can be told     *)
(* apart and a write to the caller's object is visible.                    *)

MaxEntries == 2
MaxResults == 2
TitleChars == 50
CellsPerResult == 4

Min(a, b) == IF a < b THEN a ELSE b
Max(a, b) == IF a < b THEN b ELSE a

\* outcomes of one Math.random() draw of selectRandom
Choices == {1, 2}

\* a list entry: a plain string (its characters in text), or a structured
\* object (its title in text, the drawn lighting template or the step number
\* in pick, the timeline of a PR step in timeline)
StringEntry(text) == [isString |-> TRUE, text |-> text, pick |-> 0, timeline |-> ""]
ObjectEntry(title, drawn) ==
    [isString |-> FALSE, text |-> title, pick |-> drawn, timeline |-> ""]

EntryValues ==
    {StringEntry(<<"a">>), StringEntry(<<"a", ".", "b">>), ObjectEntry(<<"a">>, 1)}

\* a list field of an analysis: absent, or an array of up to MaxEntries entries
ListValues ==
    {[present |-> FALSE, items |-> <<>>]}
    \cup {[present |-> TRUE, items |-> s] : s \in SeqsUpTo(EntryValues, MaxEntries)}

\* a result: with or without an analysis object
ResultValues ==
    {[hasAnalysis |-> FALSE, shoot |-> [present |-> FALSE, items |-> <<>>],
      pr |-> [present |-> FALSE, items |-> <<>>]]}
    \cup [hasAnalysis : {TRUE}, shoot : ListValues, pr : ListValues]

FreeCell ==
    [tag |-> "free", analysis |-> 0, shootIdeas |-> 0, prOutline |-> 0,
     results |-> <<>>, items |-> <<>>, enhanced |-> FALSE]

Cell(tag) == [FreeCell EXCEPT !.tag = tag]

\* the cells of a response with MaxResults results, enhanced once
MaxAddr == 2 * (1 + MaxResults * CellsPerResult)
Addrs == 1..MaxAddr

\* the cells of result value v, laid out from address base + 1
Layout(v, base) ==
    [a \in (base + 1)..(base + CellsPerResult) |->
        CASE a = base + 1 ->
                [Cell("result") EXCEPT !.analysis = IF v.hasAnalysis THEN base + 2 ELSE 0]
          [] a = base + 2 /\ v.hasAnalysis ->
                [Cell("analysis") EXCEPT
                    !.shootIdeas = IF v.shoot.present THEN base + 3 ELSE 0,
                    !.prOutline = IF v.pr.present THEN base + 4 ELSE 0]
          [] a = base + 3 /\ v.shoot.present ->
                [Cell("array") EXCEPT !.items = v.shoot.items]
          [] a = base + 4 /\ v.pr.present ->
                [Cell("array") EXCEPT !.items = v.pr.items]
          [] OTHER -> FreeCell]

\* memory m with the given cells written
Write(m, cells) == [a \in Addrs |-> IF a \in DOMAIN cells THEN cells[a] ELSE m[a]]

EmptyMemory == [a \in Addrs |-> FreeCell]

\* extractTitle(text): text up to its first period or 50 characters
ExtractTitle(text) ==
    LET endIndex == Min(IndexOf(text, ".") - 1, TitleChars)
    IN IF endIndex > 0 THEN Take(text, endIndex) ELSE Take(text, TitleChars)

\* text.indexOf is not a function: extractTitle applied to an object entry
ExtractTitleRaises(entry) == ~entry.isString

\* createDetailedShootDescription(basicIdea), drawn: the selectRandom outcome
CreateDetailedShootDescription(basicIdea, drawn) ==
    ObjectEntry(ExtractTitle(basicIdea.text), drawn)

DefaultShootTexts == << <<"Hero">>, <<"Behind">>, <<"User">> >>

\* no default ideas
GenerateNoShootIdeas(picks) == <<>>

\* generateDefaultShootIdeas()
GenerateDefaultShootIdeas(picks) ==
    [i \in DOMAIN DefaultShootTexts |->
        CreateDetailedShootDescription(StringEntry(DefaultShootTexts[i]), picks[i])]

\* the draws of one enhanceResult call, one per shoot idea
PickIndexes == 1..Max(MaxEntries, Len(DefaultShootTexts))
Picks == [PickIndexes -> Choices]

\* enhanceShootDescriptions(basicIdeas)
EnhanceShootDescriptions(basicIdeas, picks) ==
    IF Len(basicIdeas) > 0
    THEN [i \in DOMAIN basicIdeas |->
             CreateDetailedShootDescription(basicIdeas[i], picks[i])]
    ELSE GenerateDefaultShootIdeas(picks)

\* the timelines table of getTimelineForStep
Timelines ==
    <<"Day 1-2", "Day 3-5", "Day 6-10", "Day 11-14", "Day 15-21", "Day 22-30">>

\* a timeline lookup that starts over after the last entry
GetTimelineAround(order) == Timelines[((order - 1) % Len(Timelines)) + 1]

\* getTimelineForStep(order): timelines[Math.min(order - 1, length - 1)]
GetTimelineForStep(order) == Timelines[Min(order - 1, Len(Timelines) - 1) + 1]

\* createDetailedPRStep(basicStep, order)
CreateDetailedPRStep(basicStep, order) ==
    [ObjectEntry(ExtractTitle(basicStep.text), order) EXCEPT
        !.timeline = GetTimelineForStep(order)]

\* the first word of each title of generateDefaultPRCampaign
DefaultPRTitles == << <<"Draft">>, <<"Media">>, <<"Social">>, <<"Monitor">> >>

\* the timeline literals of generateDefaultPRCampaign
DefaultPRTimelines == <<"Day 1-2", "Day 3-5", "Day 6-14", "Day 15-30">>

\* generateDefaultPRCampaign()
GenerateDefaultPRCampaign ==
    [i \in DOMAIN DefaultPRTitles |->
        [ObjectEntry(DefaultPRTitles[i], i) EXCEPT !.timeline = DefaultPRTimelines[i]]]

\* enhancePROutline(basicOutline)
EnhancePROutline(basicOutline) ==
    IF Len(basicOutline) > 0
    THEN [i \in DOMAIN basicOutline |-> CreateDetailedPRStep(basicOutline[i], i)]
    ELSE GenerateDefaultPRCampaign

\* result.analysis?.shootIdeas || [] and result.analysis?.prOutline || []
ShootIdeasOf(m, r) ==
    IF m[r].analysis = 0 \/ m[m[r].analysis].shootIdeas = 0 THEN <<>>
    ELSE m[m[m[r].analysis].shootIdeas].items

PROutlineOf(m, r) ==
    IF m[r].analysis = 0 \/ m[m[r].analysis].prOutline = 0 THEN <<>>
    ELSE m[m[m[r].analysis].prOutline].items

\* enhanceResult(result) raises the TypeError of extractTitle
EnhanceRaises(m, r) ==
    \/ \E i \in DOMAIN ShootIdeasOf(m, r) : ExtractTitleRaises(ShootIdeasOf(m, r)[i])
    \/ \E i \in DOMAIN PROutlineOf(m, r) : ExtractTitleRaises(PROutlineOf(m, r)[i])

\* enhanceResult(result): the new result object, its new analysis object and
\* the two new arrays, placed from address base + 1
EnhanceResultAt(m, r, picks, base) ==
    [a \in (base + 1)..(base + CellsPerResult) |->
        CASE a = base + 1 ->
                [Cell("result") EXCEPT !.analysis = base + 2, !.enhanced = TRUE]
          [] a = base + 2 ->
                [Cell("analysis") EXCEPT !.shootIdeas = base + 3, !.prOutline = base + 4]
          [] a = base + 3 ->
                [Cell("array") EXCEPT
                    !.items = EnhanceShootDescriptions(ShootIdeasOf(m, r), picks)]
          [] OTHER ->
                [Cell("array") EXCEPT !.items = EnhancePROutline(PROutlineOf(m, r))]]

\* a result whose prOutline is longer than the timelines table
LongOutline ==
    [hasAnalysis |-> TRUE,
     shoot |-> [present |-> FALSE, items |-> <<>>],
     pr |-> [present |-> TRUE,
             items |-> [i \in 1..(Len(Timelines) + 2) |->
                           StringEntry(IF i % 2 = 0 THEN <<"a">> ELSE <<"a", ".", "b">>)]]]

\* the results a response can hold
SampleResults ==
    { [hasAnalysis |-> FALSE, shoot |-> [present |-> FALSE, items |-> <<>>],
       pr |-> [present |-> FALSE, items |-> <<>>]],
      [hasAnalysis |-> TRUE,
       shoot |-> [present |-> TRUE, items |-> <<StringEntry(<<"a">>)>>],
       pr |-> [present |-> TRUE, items |-> <<StringEntry(<<"a", ".", "b">>)>>]],
      [hasAnalysis |-> TRUE,
       shoot |-> [present |-> TRUE, items |-> <<ObjectEntry(<<"a">>, 1)>>],
       pr |-> [present |-> TRUE, items |-> <<>>]] }

\* the memory holding a response with the given results, from address 1
ResponseLayout(rs) ==
    [a \in 1..(1 + CellsPerResult * Len(rs)) |->
        IF a = 1
        THEN [Cell("response") EXCEPT
                 !.results = [k \in DOMAIN rs |-> 2 + CellsPerResult * (k - 1)]]
        ELSE LET k == (a - 2) \div CellsPerResult + 1
             IN Layout(rs[k], 1 + CellsPerResult * (k - 1))[a]]

EnhancerOff ==
    /\ enPc = "off" /\ mem = EmptyMemory /\ memBefore = EmptyMemory
    /\ arg = 0 /\ ret = 0 /\ top = 0 /\ inputTop = 0

\* an object built by the caller and about to be handed to the enhancer
EnhancerInit ==
    /\ enPc = "idle"
    /\ \/ \E v \in ResultValues \cup {LongOutline} :
            mem = Write(EmptyMemory, Layout(v, 0)) /\ top = CellsPerResult
       \/ \E rs \in SeqsUpTo(SampleResults, MaxResults) :
            /\ mem = Write(EmptyMemory, ResponseLayout(rs))
            /\ top = 1 + CellsPerResult * Len(rs)
       \/ mem = Write(EmptyMemory, [a \in {1} |-> Cell("bare")]) /\ top = 1
    /\ memBefore = mem /\ inputTop = top
    /\ arg = 1 /\ ret = 0

\* enhanceResult pushing the detailed ideas into the caller's shootIdeas array
EnhanceResultInPlace(picks) ==
    /\ enPc = "idle" /\ mem[arg].tag = "result"
    /\ memBefore' = mem /\ inputTop' = top
    /\ IF EnhanceRaises(mem, arg)
       THEN enPc' = "raised" /\ UNCHANGED <<mem, ret, top>>
       ELSE /\ LET new == EnhanceResultAt(mem, arg, picks, top)
                   an == mem[arg].analysis
                   own == IF an = 0 THEN 0 ELSE mem[an].shootIdeas
               IN mem' = [Write(mem, new) EXCEPT
                             ![IF own = 0 THEN top + 3 ELSE own] = new[top + 3]]
            /\ ret' = top + 1 /\ top' = top + CellsPerResult
            /\ enPc' = "returned"
    /\ UNCHANGED arg
    /\ UNCHANGED notEnhance

\* enhancer.enhanceResult(result)
EnhanceResult(picks) ==
    /\ enPc = "idle" /\ mem[arg].tag = "result"
    /\ memBefore' = mem /\ inputTop' = top
    /\ IF EnhanceRaises(mem, arg)
       THEN enPc' = "raised" /\ UNCHANGED <<mem, ret, top>>
       ELSE /\ mem' = Write(mem, EnhanceResultAt(mem, arg, picks, top))
            /\ ret' = top + 1 /\ top' = top + CellsPerResult
            /\ enPc' = "returned"
    /\ UNCHANGED arg
    /\ UNCHANGED notEnhance

\* enhancer.enhanceResponse(basicResponse)
EnhanceResponse(picks) ==
    /\ enPc = "idle" /\ mem[arg].tag \in {"response", "bare"}
    /\ memBefore' = mem /\ inputTop' = top
    /\ LET rs == mem[arg].results
           n == Len(rs)
           at(k) == top + 1 + CellsPerResult * (k - 1)
       IN IF mem[arg].tag = "bare"
          THEN enPc' = "returned" /\ ret' = arg /\ UNCHANGED <<mem, top>>
          ELSE IF \E k \in DOMAIN rs : EnhanceRaises(mem, rs[k])
          THEN enPc' = "raised" /\ UNCHANGED <<mem, ret, top>>
          ELSE /\ mem' = Write(mem,
                      [a \in (top + 1)..(top + 1 + CellsPerResult * n) |->
                          IF a = top + 1
                          THEN [Cell("response") EXCEPT
                                   !.results = [k \in DOMAIN rs |-> at(k) + 1]]
                          ELSE LET k == (a - top - 2) \div CellsPerResult + 1
                               IN EnhanceResultAt(mem, rs[k], picks, at(k))[a]])
               /\ ret' = top + 1 /\ top' = top + 1 + CellsPerResult * n
               /\ enPc' = "returned"
    /\ UNCHANGED arg
    /\ UNCHANGED notEnhance

\* the caller hands the returned result to enhanceResult once more
EnhanceAgain ==
    /\ enPc = "returned" /\ mem[ret].tag = "result"
    /\ top + CellsPerResult <= MaxAddr
    /\ arg' = ret
    /\ enPc' = "idle"
    /\ UNCHANGED <<mem, memBefore, ret, top, inputTop>>
    /\ UNCHANGED notEnhance

EnhanceNext ==
    \/ \E picks \in Picks : EnhanceResult(picks)
    \/ \E picks \in Picks : EnhanceResponse(picks)
    \/ EnhanceAgain

----------------------------------------------------------------------------
(* SecureStorage.  Characters are hex digits (4 bits), base64 digits are   *)
(* sextets; a string is a sequence, the empty sequence standing for the    *)
(* empty string and for an absent localStorage entry alike (both falsy).   *)

SaltChars == 32

Pad == 64

StorageProviders == {"openai", "mistral"}

\* API keys: with the salt in front, one text for each base64 padding case
ApiKeys == {<<1>>, <<10, 1>>, <<1, 10, 15>>}

\* generateSalt(): 16 random bytes as 32 hex digits
Salts == {[i \in 1..SaltChars |-> 0], [i \in 1..SaltChars |-> IF i % 2 = 0 THEN 15 ELSE 3]}

\* bit k (0 the highest) of a value of the given width
Bit(v, k, width) == (v \div (2 ^ (width - 1 - k))) % 2

\* btoa(s): the bits of the characters regrouped into sextets, zero-filled,
\* with one pad sign when the last sextet group holds two characters
Btoa(s) ==
    LET nbits == 4 * Len(s)
        bit(i) == IF i <= nbits THEN Bit(s[(i - 1) \div 4 + 1], (i - 1) % 4, 4) ELSE 0
        n == (nbits + 5) \div 6
        sextets == [j \in 1..n |->
                       32 * bit(6 * j - 5) + 16 * bit(6 * j - 4) + 8 * bit(6 * j - 3)
                       + 4 * bit(6 * j - 2) + 2 * bit(6 * j - 1) + bit(6 * j)]
    IN IF Len(s) % 3 = 2 THEN sextets \o <<Pad>> ELSE sextets

\* atob(encoded)
Atob(encoded) ==
    LET body == SelectSeq(encoded, LAMBDA x : x # Pad)
        pads == Len(encoded) - Len(body)
        bit(i) == Bit(body[(i - 1) \div 6 + 1], (i - 1) % 6, 6)
        n == (6 * Len(body)) \div 4 - pads
    IN [c \in 1..n |->
           8 * bit(4 * c - 3) + 4 * bit(4 * c - 2) + 2 * bit(4 * c - 1) + bit(4 * c)]

\* encode(data)
Encode(s, data) == Btoa(s \o data)

\* decode without removing the salt
DecodeKeepsSalt(s, encoded) == Atob(encoded)

\* decode(encoded)
Decode(s, encoded) ==
    LET decoded == Atob(encoded) IN SubSeq(decoded, Len(s) + 1, Len(decoded))

\* removeKey(provider)
RemoveKeyIn(ls, p) ==
    [ls EXCEPT !.secure[p] = <<>>, !.legacy[p] = <<>>]

\* saveKey(provider, key)
SaveKeyIn(ls, s, p, key) ==
    IF key = <<>> THEN RemoveKeyIn(ls, p)
    ELSE [ls EXCEPT !.secure[p] = Encode(s, key)]

\* getKey(provider): the value returned and localStorage afterwards
GetKeyIn(ls, s, p) ==
    IF ls.secure[p] = <<>>
    THEN IF ls.legacy[p] # <<>>
         THEN [value |-> ls.legacy[p],
               ls |-> [SaveKeyIn(ls, s, p, ls.legacy[p]) EXCEPT !.legacy[p] = <<>>]]
         ELSE [value |-> <<>>, ls |-> ls]
    ELSE [value |-> Decode(s, ls.secure[p]), ls |-> ls]

NoGot == [called |-> FALSE, provider |-> "", value |-> <<>>]

EmptyStorage ==
    [salt |-> <<>>, secure |-> [p \in StorageProviders |-> <<>>],
     legacy |-> [p \in StorageProviders |-> <<>>]]

StorageOff ==
    /\ localStorage = EmptyStorage /\ salt = <<>>
    /\ lastSaved = [p \in StorageProviders |-> <<>>] /\ got = NoGot

\* new SecureStorage() on a localStorage that holds no salt yet and may hold
\* legacy entries
StorageInit ==
    /\ salt \in Salts
    /\ \E legacy \in [StorageProviders -> ApiKeys \cup {<<>>}] :
          /\ localStorage = [EmptyStorage EXCEPT !.salt = salt, !.legacy = legacy]
          /\ lastSaved = legacy
    /\ got = NoGot

\* new SecureStorage() (constructor, getOrCreateSalt), fresh: the generated salt
NewSecureStorage(fresh) ==
    /\ salt # <<>>
    /\ salt' = IF localStorage.salt = <<>> THEN fresh ELSE localStorage.salt
    /\ localStorage' = [localStorage EXCEPT !.salt = salt']
    /\ got' = NoGot
    /\ UNCHANGED lastSaved
    /\ UNCHANGED notStorage

SaveKey(p, key) ==
    /\ salt # <<>>
    /\ localStorage' = SaveKeyIn(localStorage, salt, p, key)
    /\ lastSaved' = [lastSaved EXCEPT ![p] = key]
    /\ got' = NoGot
    /\ UNCHANGED salt
    /\ UNCHANGED notStorage

GetKey(p) ==
    /\ salt # <<>>
    /\ LET r == GetKeyIn(localStorage, salt, p) IN
          /\ got' = [called |-> TRUE, provider |-> p, value |-> r.value]
          /\ localStorage' = r.ls
    /\ UNCHANGED <<salt, lastSaved>>
    /\ UNCHANGED notStorage

RemoveKey(p) ==
    /\ salt # <<>>
    /\ localStorage' = RemoveKeyIn(localStorage, p)
    /\ lastSaved' = [lastSaved EXCEPT ![p] = <<>>]
    /\ got' = NoGot
    /\ UNCHANGED salt
    /\ UNCHANGED notStorage

\* clearAllKeys(confirmClear): removeKey for the four built-in providers
ClearAllKeys(confirmClear) ==
    /\ salt # <<>>
    /\ LET cleared == IF confirmClear THEN KnownProviders \cap StorageProviders ELSE {}
       IN /\ localStorage' =
                [localStorage EXCEPT
                    !.secure = [p \in StorageProviders |->
                                   IF p \in cleared THEN <<>> ELSE @[p]],
                    !.legacy = [p \in StorageProviders |->
                                   IF p \in cleared THEN <<>> ELSE @[p]]]
          /\ lastSaved' = [p \in StorageProviders |->
                              IF p \in cleared THEN <<>> ELSE lastSaved[p]]
    /\ got' = NoGot
    /\ UNCHANGED salt
    /\ UNCHANGED notStorage

StorageNext ==
    \/ \E fresh \in Salts : NewSecureStorage(fresh)
    \/ \E p \in StorageProviders, key \in ApiKeys \cup {<<>>} : SaveKey(p, key)
    \/ \E p \in StorageProviders : GetKey(p)
    \/ \E p \in StorageProviders : RemoveKey(p)
    \/ \E c \in BOOLEAN : ClearAllKeys(c)

----------------------------------------------------------------------------
(* save-data: exports.handler and the hourly cleanup.  An item carries its  *)
(* id, url and name (the empty string standing for an absent field), old:  *)
(* its savedAt lies more than a week back, and from: the x-user-id header  *)
(* of the request that saved it, kept for the statement of the properties. *)

\* requests the rate-limit window still admits when a run begins
MaxRequests == 3

\* ids of items stored before the first request of a run
StoredBase == 100

\* ids the handler generates (type, Date.now() and a random suffix)
GeneratedBase == 1000

ClientIp == "10.0.0.1"

\* values of the x-user-id header, the empty string for no header
Senders == {"", "alice"}

\* keys of userSavedData
UserIds == {"alice", ClientIp}

ValidTypes == {"animation", "post", "template"}

CollectionNames == {"animations", "posts", "templates"}

\* type + 's'
Plural(type) ==
    CASE type = "animation" -> "animations"
      [] type = "post" -> "posts"
      [] OTHER -> "templates"

NoItem == [id |-> 0, url |-> "", name |-> "", old |-> FALSE, from |-> ""]

ItemData(id, url, name) == [NoItem EXCEPT !.id = id, !.url = url, !.name = name]

\* { animations: [], posts: [], templates: [] }; exists: the Map has the key
NoUserData == [exists |-> FALSE, animations |-> <<>>, posts |-> <<>>, templates |-> <<>>]

NoSaveRequest ==
    [method |-> "", xUserId |-> "", ip |-> ClientIp, wellFormed |-> TRUE,
     type |-> "", hasData |-> FALSE, data |-> NoItem, id |-> 0]

GetRequest(who, type) == [NoSaveRequest EXCEPT !.method = "GET", !.xUserId = who, !.type = type]

PostRequest(who, type, data) ==
    [NoSaveRequest EXCEPT !.method = "POST", !.xUserId = who, !.type = type,
                      !.hasData = TRUE, !.data = data]

DeleteRequest(who, type, id) ==
    [NoSaveRequest EXCEPT !.method = "DELETE", !.xUserId = who, !.type = type, !.id = id]

\* item data sent by clients: two ids, two urls, one name
SampleData == {ItemData(1, "u1", ""), ItemData(2, "u2", ""), ItemData(1, "u2", "")}

SaveDataRequests ==
    {GetRequest("alice", "posts"), GetRequest("", "video")}
    \cup {PostRequest("alice", "post", d) : d \in SampleData}
    \cup {PostRequest("", "post", ItemData(1, "u1", "")),
          PostRequest("alice", "animation", ItemData(2, "", "")),
          PostRequest("alice", "template", ItemData(0, "", "n")),
          PostRequest("alice", "video", ItemData(1, "u1", "")),
          PostRequest("alice", "", ItemData(1, "u1", "")),
          [PostRequest("alice", "post", NoItem) EXCEPT !.hasData = FALSE],
          [PostRequest("alice", "post", NoItem) EXCEPT !.wellFormed = FALSE]}
    \cup {DeleteRequest("alice", "post", 1), DeleteRequest("", "post", 1),
          DeleteRequest("alice", "post", StoredBase + 1),
          DeleteRequest("alice", "video", 1), DeleteRequest("alice", "", 1),
          DeleteRequest("alice", "post", 0)}
    \cup {[NoSaveRequest EXCEPT !.method = "PUT"]}

\* event.headers['x-user-id'] || ip, with the header left out of account
UserIdByIp(req) == req.ip

\* event.headers['x-user-id'] || ip
UserId(req) == IF req.xUserId # "" THEN req.xUserId ELSE req.ip

\* userData[collection].findIndex(...): the first matching position, 0 when
\* findIndex gives -1
FindIndex(coll, savedItem) ==
    LET hits == {i \in DOMAIN coll :
                    \/ coll[i].id = savedItem.id
                    \/ coll[i].url # "" /\ coll[i].url = savedItem.url
                    \/ coll[i].name # "" /\ coll[i].name = savedItem.name}
    IN IF hits = {} THEN 0 ELSE CHOOSE i \in hits : \A j \in hits : i <= j

\* push(savedItem) followed by the slice
AddItemAtEnd(coll, savedItem) == Take(Append(coll, savedItem), SaveCap)

\* unshift(savedItem) and slice(0, 100) when longer than 100
AddItem(coll, savedItem) == Take(<<savedItem>> \o coll, SaveCap)

SaveResponse(status, returned) == [status |-> status, returned |-> returned]

NoSaveResponse == SaveResponse(0, <<>>)

\* what a branch of the handler leaves: the response, the Map, the ids generated
SaveOutcome(status, returned, data, gen) ==
    [resp |-> SaveResponse(status, returned), data |-> data, gen |-> gen]

\* the GET branch
GetBranch(data, req, gen) ==
    LET userData == data[UserId(req)]
    IN IF req.type \in CollectionNames
       THEN SaveOutcome(200, userData[req.type], data, gen)
       ELSE SaveOutcome(200, userData.animations \o userData.posts \o userData.templates,
                        data, gen)

\* the POST branch
PostBranch(data, req, gen) ==
    IF ~req.wellFormed THEN SaveOutcome(500, <<>>, data, gen)
    ELSE IF req.type = "" \/ ~req.hasData THEN SaveOutcome(400, <<>>, data, gen)
    ELSE IF req.type \notin ValidTypes THEN SaveOutcome(400, <<>>, data, gen)
    ELSE LET userData == data[UserId(req)]
             fresh == req.data.id = 0
             savedItem == [req.data EXCEPT
                              !.id = IF fresh THEN GeneratedBase + gen + 1 ELSE req.data.id,
                              !.old = FALSE, !.from = req.xUserId]
             collection == Plural(req.type)
             existingIndex == FindIndex(userData[collection], savedItem)
             items == IF existingIndex > 0
                      THEN [userData[collection] EXCEPT ![existingIndex] = savedItem]
                      ELSE AddItem(userData[collection], savedItem)
         IN SaveOutcome(200, <<savedItem>>,
                        [data EXCEPT ![UserId(req)] =
                            [userData EXCEPT ![collection] = items, !.exists = TRUE]],
                        IF fresh THEN gen + 1 ELSE gen)

\* the DELETE branch; an unknown type reads the length of undefined and the
\* catch block answers 500
DeleteBranch(data, req, gen) ==
    IF ~req.wellFormed THEN SaveOutcome(500, <<>>, data, gen)
    ELSE IF req.type = "" \/ req.id = 0 THEN SaveOutcome(400, <<>>, data, gen)
    ELSE IF ~data[UserId(req)].exists THEN SaveOutcome(404, <<>>, data, gen)
    ELSE IF req.type \notin ValidTypes THEN SaveOutcome(500, <<>>, data, gen)
    ELSE LET userData == data[UserId(req)]
             collection == Plural(req.type)
             kept == SelectSeq(userData[collection], LAMBDA item : item.id # req.id)
         IN IF Len(kept) = Len(userData[collection])
            THEN SaveOutcome(404, <<>>, data, gen)
            ELSE SaveOutcome(200, <<>>,
                             [data EXCEPT ![UserId(req)] =
                                 [userData EXCEPT ![collection] = kept]],
                             gen)

\* what is kept of a handled request: method, x-user-id header and type
Summary(req) == [method |-> req.method, xUserId |-> req.xUserId, type |-> req.type]

\* a request that passes the method test: rateLimiter.consume, then the branch
Handle(req, branch) ==
    /\ saveReq' = Summary(req)
    /\ saveHits' = Min(saveHits + 1, SavePoints + 1)
    /\ IF saveHits >= SavePoints
       THEN /\ saveResp' = SaveResponse(429, <<>>)
            /\ UNCHANGED <<userSavedData, generated>>
       ELSE /\ saveResp' = branch.resp
            /\ userSavedData' = branch.data
            /\ generated' = branch.gen

HandleGet(req) ==
    /\ req.method = "GET"
    /\ Handle(req, GetBranch(userSavedData, req, generated))
    /\ UNCHANGED notSave

HandlePost(req) ==
    /\ req.method = "POST"
    /\ Handle(req, PostBranch(userSavedData, req, generated))
    /\ UNCHANGED notSave

HandleDelete(req) ==
    /\ req.method = "DELETE"
    /\ Handle(req, DeleteBranch(userSavedData, req, generated))
    /\ UNCHANGED notSave

\* any other method: 405 before the rate limiter
HandleOtherMethod(req) ==
    /\ req.method \notin {"POST", "GET", "DELETE"}
    /\ saveReq' = Summary(req)
    /\ saveResp' = SaveResponse(405, <<>>)
    /\ UNCHANGED <<userSavedData, saveHits, generated>>
    /\ UNCHANGED notSave

\* the setInterval callback: items saved more than a week ago are removed,
\* then the users left without items
Cleanup ==
    /\ userSavedData' =
          [u \in UserIds |->
              LET userData == userSavedData[u]
                  fresh(coll) == SelectSeq(coll, LAMBDA item : ~item.old)
                  kept == [userData EXCEPT !.animations = fresh(userData.animations),
                                           !.posts = fresh(userData.posts),
                                           !.templates = fresh(userData.templates)]
              IN IF ~userData.exists THEN userData
                 ELSE IF Len(kept.animations) + Len(kept.posts) + Len(kept.templates) = 0
                 THEN NoUserData
                 ELSE kept]
    /\ saveReq' = Summary(NoSaveRequest) /\ saveResp' = NoSaveResponse
    /\ UNCHANGED <<saveHits, generated>>
    /\ UNCHANGED notSave

\* a week goes by: every stored item is now older than a week
WeekPasses ==
    /\ \E u \in UserIds, c \in CollectionNames :
          \E i \in DOMAIN userSavedData[u][c] : ~userSavedData[u][c][i].old
    /\ userSavedData' =
          [u \in UserIds |->
              LET aged(coll) == [i \in DOMAIN coll |-> [coll[i] EXCEPT !.old = TRUE]]
              IN [userSavedData[u] EXCEPT !.animations = aged(@),
                                          !.posts = aged(@),
                                          !.templates = aged(@)]]
    /\ saveReq' = Summary(NoSaveRequest) /\ saveResp' = NoSaveResponse
    /\ UNCHANGED <<saveHits, generated>>
    /\ UNCHANGED notSave

\* n posts saved by alice before the run, the newest first
StoredPosts(n) ==
    [i \in 1..n |-> [ItemData(StoredBase + i, "", "") EXCEPT !.from = "alice"]]

NoSavedData == [u \in UserIds |-> NoUserData]

SaveOff ==
    /\ userSavedData = NoSavedData
    /\ saveHits = 0 /\ generated = 0
    /\ saveReq = Summary(NoSaveRequest) /\ saveResp = NoSaveResponse

\* the function instance: an empty Map, or one that earlier requests have
\* brought to the item limit; a rate-limit window with MaxRequests points left
SaveInit ==
    /\ \E n \in {0, SaveCap} :
          userSavedData =
              IF n = 0 THEN NoSavedData
              ELSE [NoSavedData EXCEPT
                       !["alice"] = [NoUserData EXCEPT !.exists = TRUE,
                                                       !.posts = StoredPosts(n)]]
    /\ saveHits = SavePoints - MaxRequests
    /\ generated = 0
    /\ saveReq = Summary(NoSaveRequest) /\ saveResp = NoSaveResponse

SaveNext ==
    \/ \E req \in SaveDataRequests : HandleGet(req)
    \/ \E req \in SaveDataRequests : HandlePost(req)
    \/ \E req \in SaveDataRequests : HandleDelete(req)
    \/ \E req \in SaveDataRequests : HandleOtherMethod(req)
    \/ Cleanup
    \/ WeekPasses

----------------------------------------------------------------------------
(* Specifications                                                          *)

\* the router and its adapters
Init == RouterInit /\ ParseIdle /\ SuggestIdle /\ ServerOff /\ EnhancerOff /\ StorageOff /\ SaveOff

Next == RouterNext

Spec == Init /\ [][Next]_vars

\* the two parsers applied to one reply
InitParse == RouterInit /\ ParseInit /\ SuggestIdle /\ ServerOff /\ EnhancerOff /\ StorageOff /\ SaveOff

SpecParse == InitParse /\ [][ParseNext]_vars

\* the ai-suggestions handler
InitSuggest == RouterInit /\ ParseIdle /\ SuggestInit /\ ServerOff /\ EnhancerOff /\ StorageOff /\ SaveOff

SpecSuggest == InitSuggest /\ [][SuggestNext]_vars

\* the server-side functions
InitServer == RouterInit /\ ParseIdle /\ SuggestIdle /\ ServerInit /\ EnhancerOff /\ StorageOff /\ SaveOff

SpecServer == InitServer /\ [][ServerNext]_vars

\* the response enhancer
InitEnhance == RouterInit /\ ParseIdle /\ SuggestIdle /\ ServerOff /\ EnhancerInit /\ StorageOff /\ SaveOff

SpecEnhance == InitEnhance /\ [][EnhanceNext]_vars

\* SecureStorage over one localStorage
InitStorage == RouterInit /\ ParseIdle /\ SuggestIdle /\ ServerOff /\ EnhancerOff /\ StorageInit /\ SaveOff

SpecStorage == InitStorage /\ [][StorageNext]_vars

\* save-data, alone
InitSave == RouterInit /\ ParseIdle /\ SuggestIdle /\ ServerOff /\ EnhancerOff /\ StorageOff /\ SaveInit

SpecSave == InitSave /\ [][SaveNext]_vars

----------------------------------------------------------------------------
(* Properties of APIRouter and the adapters, under Spec                    *)

Count(seq, x) == Cardinality({i \in DOMAIN seq : seq[i] = x})
Last(seq) == seq[Len(seq)]
\* position of x in the sequence order (0 when absent)
Pos(order, x) ==
    IF \E i \in DOMAIN order : order[i] = x
    THEN CHOOSE i \in DOMAIN order : order[i] = x ELSE 0
\* the request ran with an active provider and has ended
Ended == pc = "done" /\ before.activeProvider # Null
\* call i of the request has ended in a failure the router recorded
CallFailed(i) == i <= Len(failures) /\ failures[i] = calls[i].provider

\* C1: an analyze call with an active provider ends either with one result set
\* built from the response of the first provider whose call succeeded (named in
\* its provider field, and the last provider called), or with an error after
\* every call failed; never with a result when every call failed.
C1_OneOutcome ==
    Ended =>
        \/ /\ outcome.kind = "result"
           /\ response # NoResponse
           /\ Len(calls) = Len(failures) + 1
           /\ \A i \in 1..Len(failures) : CallFailed(i)
           /\ outcome.value.provider = Last(calls).provider
           /\ outcome.value = NormalizeResponse(response, Last(calls).provider)
        \/ /\ outcome.kind = "error"
           /\ outcome.value = NoResult
           /\ response = NoResponse
           /\ Len(calls) = Len(failures)
           /\ \A i \in 1..Len(calls) : CallFailed(i)

C1_Witness ==
    Ended /\ outcome.kind = "result" /\ Len(failures) >= 1

\* C2: within one request the calls go to distinct providers, all with the
\* prompt built from the request's params; when the first k calls fail and the
\* next succeeds there are k+1 calls and k recorded failures.
C2_NoRepeatSamePrompt ==
    /\ \A i, j \in DOMAIN calls : calls[i].provider = calls[j].provider => i = j
    /\ \A i \in DOMAIN calls : calls[i].prompt = BuildPrompt(params)
    /\ Len(failures) <= Len(calls)
    /\ \A i \in DOMAIN failures : failures[i] = calls[i].provider
    /\ (pc = "done" /\ outcome.kind = "result") =>
           /\ Len(calls) = Len(failures) + 1
           /\ outcome.value.provider = calls[Len(failures) + 1].provider

C2_Witness ==
    /\ pc = "done" /\ outcome.kind = "result"
    /\ Cardinality(providers) = 3
    /\ Len(calls) = 3 /\ Len(failures) = 2
    /\ outcome.value.provider = calls[3].provider
    /\ params.platform = "tiktok"

SpecPriority == <<"openai", "claude", "gemini", "grok">>
CodePriority == <<"openai", "grok", "claude", "gemini">>

\* the fallback calls (every call after the first) follow the given order
FallbackFollows(order) ==
    \A i, j \in 2..Len(calls) :
        i < j => Pos(order, calls[i].provider) < Pos(order, calls[j].provider)

\* C3 as stated: the remaining providers are attempted in the order
\* openai, claude, gemini, grok.
C3_SpecOrder == FallbackFollows(SpecPriority)

\* C3 amended: the remaining providers are attempted in the order
\* openai, grok, claude, gemini.
C3_CodeOrder == FallbackFollows(CodePriority)

C3_Witness ==
    /\ Len(calls) >= 3
    /\ \E i \in 2..Len(calls) - 1 :
           calls[i].provider = "grok" /\ calls[i + 1].provider = "claude"

\* C4 as stated: analyze is never invoked on a provider that has no API key,
\* and with no configured provider the request fails with a
\* no-provider-configured error without any analyze invocation.
C4_SkipsUnconfigured ==
    /\ \A i \in DOMAIN calls : apiKey[calls[i].provider]
    /\ (Ended /\ \A p \in providers : ~apiKey[p]) =>
           /\ calls = <<>>
           /\ outcome.kind = "error"
           /\ outcome.error.message = "No provider configured"

\* C4's case: no registered provider has a key, yet analyze was invoked on two
\* of them and the request ended with the all-providers-failed error
C4_Witness ==
    /\ Ended /\ \A p \in providers : ~apiKey[p]
    /\ Len(calls) >= 2 /\ posts = <<>>
    /\ outcome.kind = "error" /\ outcome.error = AllFailedError

\* C5 as stated: the error raised when every provider failed carries the last
\* error raised and references the last attempted provider.
C5_CarriesLastError ==
    (Ended /\ outcome.kind = "error") =>
        /\ outcome.error.cause = lastError.message
        /\ outcome.error.provider = Last(calls).provider

\* C5 amended: when every attempted provider fails the call raises the
\* all-providers-failed error with its fixed message, which carries neither
\* the last error nor a provider name; the active provider and every provider
\* registered as openai, grok, claude or gemini were attempted, and the last
\* attempted one is left in activeProvider.
C5_FixedError ==
    (Ended /\ Len(calls) = Len(failures)) =>
        /\ outcome.kind = "error"
        /\ outcome.error.message =
               "All providers failed. Please check your API configurations."
        /\ outcome.error.cause = Null
        /\ outcome.error.provider = Null
        /\ {calls[i].provider : i \in DOMAIN calls} =
               (providers \cap KnownProviders) \cup {before.activeProvider}
        /\ lastError.provider = Last(calls).provider
        /\ activeProvider = Last(calls).provider

C5_Witness ==
    Ended /\ outcome.kind = "error" /\ Len(calls) >= 3 /\ Len(posts) >= 1

\* C6 as stated: after any analyze call the router's activeProvider and
\* provider registry equal their values before the call.
C6_Stateless ==
    pc = "done" =>
        /\ activeProvider = before.activeProvider
        /\ providers = before.providers
        /\ apiKey = before.apiKey

\* C6's case: a request answered through fallback has moved activeProvider
C6_Witness ==
    /\ pc = "done" /\ outcome.kind = "result" /\ Len(failures) = 1
    /\ before.activeProvider = "claude" /\ activeProvider = "openai"
    /\ providers = before.providers

EmptyAnswer(resp) ==
    resp \notin {NoResponse, NullResponse} /\ resp.text \in {<<>>, Missing}
\* the provider whose response the request returned
Answered == Last(calls).provider

\* C7 as stated: a call that returns an empty or missing answer text ends the
\* request with a result set whose results list is empty.
C7_EmptyResults ==
    (pc = "done" /\ EmptyAnswer(response)) =>
        /\ outcome.kind = "result"
        /\ outcome.value.results = <<>>

\* C7 amended: a call that returns an empty or missing answer text is a
\* success and no further provider is called; for a provider registered as
\* openai, grok, claude or gemini the results list holds exactly one
\* placeholder entry (empty text, whyViral "Analysis pending", no shoot ideas,
\* no PR outline), for any other name the response object itself; the list is
\* empty only for a null response body, whose result carries an error field,
\* or for an answer that is the empty JSON array.
C7_PlaceholderResult ==
    /\ (pc = "done" /\ EmptyAnswer(response)) =>
           /\ outcome.kind = "result"
           /\ Len(calls) = Len(failures) + 1
           /\ outcome.value.provider = Answered
           /\ Len(outcome.value.results) = 1
           /\ outcome.value.results[1] =
                  IF Answered \in KnownProviders
                  THEN [kind |-> "placeholder", text |-> <<>>,
                        whyViral |-> "Analysis pending",
                        shootIdeas |-> <<>>, prOutline |-> <<>>]
                  ELSE JObject
           /\ outcome.value.error = Null
    /\ (pc = "done" /\ outcome.kind = "result" /\ outcome.value.results = <<>>) =>
           \/ response = NullResponse /\ outcome.value.error # Null
           \/ response.text = <<"[", "]">>

C7_Witness ==
    /\ pc = "done" /\ outcome.kind = "result"
    /\ response.text = Missing /\ Len(failures) >= 1

\* C9: an adapter's analyze with no API key fails before any POST is issued;
\* with a key it issues exactly one POST per invocation, and it returns a
\* response only for a 2xx status.
C9_AdapterOnePost ==
    /\ \A i \in DOMAIN calls :
           LET p == calls[i].provider IN
           (i < Len(calls) \/ pc # "check") =>
               Count(posts, p) = IF apiKey[p] THEN 1 ELSE 0
    /\ Len(posts) <= Len(calls)
    /\ \A i \in DOMAIN posts : apiKey[posts[i]]
    /\ (pc = "failed" /\ ~apiKey[cur]) =>
           Count(posts, cur) = 0 /\ lastError.message = "API key not configured"
    /\ pc = "returned" => ResponseOk(httpStatus) /\ Last(posts) = cur
    /\ (pc \in {"returned", "failed"} /\ apiKey[cur] /\ ~ResponseOk(httpStatus)) =>
           pc = "failed" /\ lastError.provider = cur

C9_Witness ==
    /\ pc = "failed" /\ apiKey[cur] /\ httpStatus = 500
    /\ Len(calls) = 2 /\ ~apiKey[calls[1].provider] /\ posts = <<cur>>

----------------------------------------------------------------------------
(* Properties of the ai-suggestions handler, under SpecSuggest             *)

\* the request passed the method, body and goal checks
SuggestValid(req) == req.method = "POST" /\ req.bodyOk /\ req.goalOk

\* the first provider of the order that has a key (Null when none has)
FirstKeyed(keys) ==
    IF \E k \in DOMAIN SuggestOrder : SuggestOrder[k] \in keys
    THEN SuggestOrder[CHOOSE k \in DOMAIN SuggestOrder :
                          /\ SuggestOrder[k] \in keys
                          /\ \A j \in 1..(k - 1) : SuggestOrder[j] \notin keys]
    ELSE Null

\* C8 as stated: when the requested provider has no API key the handler uses
\* the first provider of openai, claude, gemini, grok that has a key, and
\* answers that no provider is available only when none of the four has one.
C8_FallsBackToKeyed ==
    (/\ sgPc = "done" /\ SuggestValid(sgReq)
     /\ sgReq.provider \in KnownProviders /\ sgReq.provider \notin sgReq.keys) =>
        IF sgReq.keys = {}
        THEN sgResp.statusCode = 503 /\ sgCalls = <<>>
        ELSE sgResp.statusCode # 503 /\ sgCalls = <<FirstKeyed(sgReq.keys)>>

\* C8's case: claude is requested without a key while openai has one, and the
\* handler answers 503 without calling any provider
C8_Witness ==
    /\ sgPc = "done" /\ SuggestValid(sgReq)
    /\ sgReq.provider = "claude" /\ sgReq.keys = {"openai"}
    /\ sgResp.statusCode = 503 /\ sgCalls = <<>>

----------------------------------------------------------------------------
(* Properties of the two parseAIResponse functions, under SpecParse        *)

\* the reply is a string and the post an object
ParseCase == parsePc = "parsed" /\ IsString(input.content) /\ input.post # Null

SchemaCase(r, nl) ==
    parsePc = "parsed" /\ input.post # Null /\ input.content = SchemaReply(r, nl)

FallbackResult ==
    /\ analysis.whyViral =
           SubSeq(input.content, 1,
                  IF Len(input.content) < 200 THEN Len(input.content) ELSE 200)
    /\ analysis.shootIdeas = <<<<"See full analysis for detailed shoot ideas">>>>
    /\ analysis.prOutline = <<<<"See full analysis for PR strategy">>>>
    /\ analysis.keyTakeaways = <<<<"Analysis available in full response">>>>
    /\ analysis.hasFullResponse
    /\ analysis.fullResponse = input.content

\* the reply has no heading (no colon, no numbered line) and no JSON
FreeText ==
    \A i \in DOMAIN input.content :
        input.content[i] \notin {":", "1.", "[", "]", "{}", "{", "}", "null", "fence"}

\* C12 as stated: every free-text reply without headings and without JSON
\* gets the raw-text fallback result.
C12_FreeTextFallsBack ==
    (ParseCase /\ FreeText) => FallbackResult

\* C12 amended: the result is either the fallback result (whyViral the first
\* 200 characters, one placeholder in each list, fullResponse the whole
\* reply) or a result without fullResponse in which whyViral or shootIdeas is
\* not empty; the fallback is the result for every reply that mentions
\* neither photo nor shoot nor both why and viral, and a reply without
\* headings that mentions why and viral gets itself as whyViral and no
\* fullResponse.
C12_FallbackWhenNothingExtracted ==
    ParseCase =>
        LET text == input.content
            whyAndViral == Includes(text, "why") /\ Includes(text, "viral")
        IN /\ FallbackResult \/
              /\ ~analysis.hasFullResponse /\ analysis.fullResponse = <<>>
              /\ analysis.whyViral # <<>> \/ analysis.shootIdeas # <<>>
           /\ (~whyAndViral /\ ~Includes(text, "shoot") /\ ~Includes(text, "photo"))
                 => FallbackResult
           /\ (FreeText /\ whyAndViral /\ "\n" \notin {text[i] : i \in DOMAIN text}) =>
                  analysis.whyViral = text /\ ~analysis.hasFullResponse

C12_Witness ==
    /\ ParseCase /\ input.content = LongText
    /\ Len(analysis.whyViral) = 200 /\ analysis.fullResponse = LongText
    /\ Len(analysis.shootIdeas) = 1

----------------------------------------------------------------------------
(* Properties of the server-side functions, under SpecServer               *)

\* a success response has been built and not yet sent
Delivered == srvPc = "done" /\ srvResp.success

WithinBounds(result) ==
    /\ Len(result.shootIdeas) <= MaxShootIdeas
    /\ Len(result.keyTakeaways) <= MaxKeyTakeaways

\* C13: every analysis result handed to a client has at most 5 shootIdeas and
\* at most 3 keyTakeaways, whichever path produced it (parseAIResponse,
\* generateAIAnalysis, the Express /api/analyze route, getViralContent).
\* The Express route and getViralContent hand out four keyTakeaways.
C13_ListBounds ==
    Delivered => \A i \in DOMAIN srvResp.results : WithinBounds(srvResp.results[i])

\* the Express route has answered a request with one post or more
C13_Witness ==
    /\ fn = "express" /\ Delivered
    /\ srvResp.results # <<>>
    /\ Len(srvResp.results[1].keyTakeaways) = 4

AnalyzeFn == fn \in {"analyze-1", "analyze-2"}

\* C17: the analyze handler starts one call per post for at most the first 5
\* posts of the request, and a success response lists exactly one result per
\* analysed post, result i carrying the postId of post i, whatever order the
\* calls settled in.
C17_ResultsInPostOrder ==
    AnalyzeFn =>
        /\ srvPc = "calling" => srvCalls = Min(srvReq.nPosts, MaxAnalyzed)
        /\ Delivered =>
              /\ Len(srvResp.results) = Min(srvReq.nPosts, MaxAnalyzed)
              /\ \A i \in DOMAIN srvResp.results :
                    srvResp.results[i].postId = PostsOf(srvReq.nPosts)[i]

\* six posts were sent, five calls were made and all returned, the first a
\* free text and the fifth a headed reply, and the five results are delivered
C17_Witness ==
    /\ AnalyzeFn /\ Delivered
    /\ srvReq.nPosts = MaxPosts /\ srvCalls = MaxAnalyzed
    /\ srvResp.results[1].whyViral = <<"x">>
    /\ srvResp.results[5].postId = "p5"
    /\ Len(srvResp.results[5].shootIdeas) = MaxShootIdeas

\* a provider call of the request rejected: its slot never received a result
SomeCallFailed ==
    srvPc = "done" /\ \E i \in 1..srvCalls : replies[i] = AnalysisPending

\* C18: when the selected provider is unconfigured or its call fails, the
\* analyze endpoint answers with a failure, never with a success response
\* filled with canned analysis.  The first implementation answers 200 with
\* the results of generateAIAnalysis in both cases.
C18_FailureSurfaced ==
    (AnalyzeFn /\ srvPc = "done" /\ (~env.hasKey \/ SomeCallFailed))
        => ~srvResp.success

\* the OpenAI key is missing and the handler has answered 200 with canned results
C18_Witness ==
    /\ fn = "analyze-1" /\ ~env.hasKey /\ srvReq.provider = "openai"
    /\ Delivered
    /\ srvResp.results = GenerateAIAnalysis(PostsToAnalyze(srvReq))

RateLimitedFn == fn \in {"analyze-1", "analyze-2", "save-data"}

\* C19: a request to the analyze or save-data handler is answered 429 exactly
\* when rateLimiter.consume rejected it; a rejected request starts no provider
\* call and leaves the stored data as it was, and no other failure (bad JSON,
\* invalid fields, a failed provider call) is answered 429.
C19_RateLimitOnly ==
    RateLimitedFn =>
        /\ srvPc = "done" => (srvResp.statusCode = 429 <=> rejected)
        /\ rejected => /\ srvPc = "done"
                       /\ srvCalls = 0 /\ pending = {}
                       /\ store = storeBefore
                       /\ srvResp = Reply(429, "Rate limit exceeded. Please try again later.")

\* a DELETE with an unparsable body arrives when the window's points are used
\* up and data is stored: it is answered 429 and the data is untouched
C19_Witness ==
    /\ fn = "save-data" /\ rejected /\ srvPc = "done"
    /\ srvReq.method = "DELETE" /\ ~srvReq.bodyOk
    /\ store.exists /\ store.posts # <<>>
    /\ srvResp.statusCode = 429

----------------------------------------------------------------------------
(* Error text in responses, under SpecSuggest                              *)

\* C20: no response depends on provider-internal error text: when the
\* provider call of the ai-suggestions handler fails, the response is the same
\* whatever the message of the upstream error.  The handler appends
\* error.message to the body, so the responses differ.
C20_ErrorTextHidden ==
    sgPc = "calling" =>
        \A e1, e2 \in UpstreamErrors : SuggestFailure(e1) = SuggestFailure(e2)

\* a provider call failed and the upstream message is in the 500 response
C20_Witness ==
    /\ sgPc = "done" /\ sgCalls # <<>>
    /\ sgResp.statusCode = 500
    /\ sgResp.error = "Failed to generate suggestions: quota exceeded"

----------------------------------------------------------------------------
(* Properties of ResponseEnhancer, under SpecEnhance                       *)

\* enhanceResult was called on a result and has returned
ResultReturned == enPc = "returned" /\ mem[arg].tag = "result"

\* C14: when enhanceResult returns, a non-empty shootIdeas (prOutline) input of
\* n entries has given exactly n entries in the same order, and an empty or
\* missing list exactly 3 shoot ideas (4 PR steps), whatever selectRandom drew.
C14_CountsFollowInput ==
    ResultReturned =>
        LET shootIn == ShootIdeasOf(memBefore, arg)
            shootOut == ShootIdeasOf(mem, ret)
            prIn == PROutlineOf(memBefore, arg)
            prOut == PROutlineOf(mem, ret)
        IN /\ Len(shootOut) = IF Len(shootIn) = 0 THEN 3 ELSE Len(shootIn)
           /\ Len(prOut) = IF Len(prIn) = 0 THEN 4 ELSE Len(prIn)
           /\ \A i \in DOMAIN shootIn : shootOut[i].text = ExtractTitle(shootIn[i].text)
           /\ \A i \in DOMAIN prIn :
                 prOut[i].text = ExtractTitle(prIn[i].text) /\ prOut[i].pick = i

\* two different shoot ideas and no prOutline went in; two detailed ideas in
\* the same order and four PR steps came out, the second draw being 2
C14_Witness ==
    /\ ResultReturned
    /\ ShootIdeasOf(memBefore, arg) = <<StringEntry(<<"a", ".", "b">>), StringEntry(<<"a">>)>>
    /\ memBefore[memBefore[arg].analysis].prOutline = 0
    /\ Len(ShootIdeasOf(mem, ret)) = 2 /\ ShootIdeasOf(mem, ret)[2].pick = 2
    /\ Len(PROutlineOf(mem, ret)) = 4

\* C15: the enhancer does not mutate its input: when enhanceResponse or
\* enhanceResult returns (or raises), every object and array that existed at
\* the call is unchanged, and each returned result, its analysis and its two
\* lists are objects that did not exist at the call.
C15_InputUnchanged ==
    /\ enPc \in {"returned", "raised"} =>
          \A a \in 1..inputTop : mem[a] = memBefore[a]
    /\ (enPc = "returned" /\ mem[arg].tag # "bare") =>
          LET fresh(a) == a > inputTop
              freshResult(r) ==
                  /\ fresh(r) /\ fresh(mem[r].analysis)
                  /\ fresh(mem[mem[r].analysis].shootIdeas)
                  /\ fresh(mem[mem[r].analysis].prOutline)
          IN /\ fresh(ret)
             /\ mem[ret].tag = "result" => freshResult(ret)
             /\ \A k \in DOMAIN mem[ret].results : freshResult(mem[ret].results[k])

\* enhanceResponse returned for a response of two results with string entries
C15_Witness ==
    /\ enPc = "returned" /\ mem[arg].tag = "response"
    /\ Len(mem[arg].results) = 2
    /\ ShootIdeasOf(memBefore, mem[arg].results[2]) = <<StringEntry(<<"a">>)>>
    /\ Len(ShootIdeasOf(mem, mem[ret].results[2])) = 1
    /\ ~ShootIdeasOf(mem, mem[ret].results[2])[1].isString

\* C16: the enhancer handles string and structured-object list entries alike
\* without raising, so enhancing an enhanced result succeeds.  extractTitle
\* calls text.indexOf on every entry, which raises a TypeError for an object.
C16_NeverRaises == enPc # "raised"

\* a result of plain strings was enhanced, the returned result was handed to
\* enhanceResult again, and that call raised
C16_Witness ==
    /\ enPc = "raised"
    /\ mem[arg].tag = "result" /\ mem[arg].enhanced
    /\ arg = ret

----------------------------------------------------------------------------
(* Validation, under SpecServer                                            *)

\* C21: a request to the analyze handler with an unparsable body or a missing
\* or empty posts array is answered with a 4xx validation error and no
\* provider call, never with a 5xx.  JSON.parse(event.body) runs inside the
\* try block, so an unparsable body reaches the catch and is answered 500.
C21_MalformedIsValidationError ==
    (/\ AnalyzeFn /\ srvPc = "done" /\ srvReq.method = "POST" /\ ~rejected
     /\ (~srvReq.bodyOk \/ srvReq.nPosts = 0))
        => /\ srvResp.statusCode \in 400..499
           /\ srvCalls = 0

\* an unparsable body was answered 500 'Analysis failed. Please try again.'
C21_Witness ==
    /\ AnalyzeFn /\ srvPc = "done" /\ srvReq.method = "POST" /\ ~rejected
    /\ ~srvReq.bodyOk
    /\ srvResp.statusCode = 500
    /\ srvResp.error = "Analysis failed. Please try again."
    /\ srvCalls = 0

----------------------------------------------------------------------------
(* Properties of SecureStorage, under SpecStorage                          *)

\* C22: after any sequence of saveKey, getKey, removeKey and clearAllKeys
\* calls, getKey(p) returns the key last saved for p since its last removal,
\* and null when none is stored; so would a SecureStorage instance created
\* now over the same localStorage, whatever salt it generated.
C22_GetReturnsLastSaved ==
    /\ got.called => got.value = lastSaved[got.provider]
    /\ salt # <<>> =>
          \A p \in StorageProviders, s \in {salt, localStorage.salt} :
              GetKeyIn(localStorage, s, p).value = lastSaved[p]

\* getKey returned a two-character key that is stored encoded, not as a
\* legacy entry, next to an entry of the other provider
C22_Witness ==
    /\ got.called /\ got.provider = "mistral" /\ got.value = <<10, 1>>
    /\ localStorage.secure["mistral"] = Encode(salt, <<10, 1>>)
    /\ localStorage.secure["mistral"] # salt \o <<10, 1>>
    /\ localStorage.legacy["mistral"] = <<>>
    /\ localStorage.secure["openai"] # <<>>

----------------------------------------------------------------------------
(* Sequential fallback, under Spec                                         *)

\* C23: provider fallback in APIRouter is sequential: of the provider calls of
\* one analyze request at most one has not ended in a recorded failure, it is
\* the last one started, and while a call is in flight it is that one; so a
\* provider is called only after every earlier call has failed.
C23_SequentialFallback ==
    /\ Len(calls) <= Len(failures) + 1
    /\ \A i \in 1..(Len(calls) - 1) : CallFailed(i)
    /\ pc \in {"check", "fetch"} =>
          /\ Len(calls) = Len(failures) + 1
          /\ cur = Last(calls).provider

\* the third provider's call is in flight after the calls of two others failed
C23_Witness ==
    /\ pc = "fetch" /\ phase = "fallback"
    /\ Len(calls) = 3 /\ Len(failures) = 2
    /\ CallFailed(1) /\ CallFailed(2)

----------------------------------------------------------------------------
(* Normalization of a fenced reply, under Spec                             *)

\* the reply is a JSON array inside one Markdown code fence
FencedArray(text) ==
    /\ text # Missing
    /\ FenceMatch(text).found
    /\ JSONParse(FenceMatch(text).capture).ok
    /\ JSONParse(FenceMatch(text).capture).val.kind = "array"

\* C24: normalization strips one surrounding code fence and parses the rest
\* as JSON, an array being taken as the results.  normalizeResponse parses the
\* reply as it is, so a fenced array is not JSON and becomes one placeholder.
C24_FenceStrippedThenParsed ==
    (/\ pc = "done" /\ outcome.kind = "result"
     /\ outcome.value.provider \in KnownProviders
     /\ response.envelope = EnvelopeOf(outcome.value.provider)
     /\ FencedArray(response.text))
        => outcome.value.results = JSONParse(FenceMatch(response.text).capture).val.items

\* a fenced array of one object came back and the result is one placeholder
C24_Witness ==
    /\ pc = "done" /\ outcome.kind = "result"
    /\ outcome.value.provider = "openai"
    /\ response.envelope = "choices"
    /\ FencedArray(response.text)
    /\ outcome.value.results = <<Placeholder(response.text)>>

----------------------------------------------------------------------------
(* Parse recovery and section classification, under SpecParse              *)

\* parseAIResponse of the analyze function has returned a result for a string
\* reply; it never parses JSON, so the result comes from section splitting or
\* from the raw-text fallback
RecoveryUsed ==
    /\ parsePc \in {"analysed", "parsed"}
    /\ IsString(input.content) /\ input.post # Null

\* C25: a result built by section splitting or by the raw-text fallback
\* carries an indication of it (the raw text under fullResponse).  A result
\* built from matched sections has no fullResponse and no other mark.
C25_RecoveryObservable ==
    RecoveryUsed => analysis.hasFullResponse /\ analysis.fullResponse = input.content

\* a headed reply was split into sections and the result has no fullResponse
C25_Witness ==
    /\ RecoveryUsed
    /\ input.content = <<"WHY", "viral", ":", "x", "\n", "SHOOT", ":",
                         "\n", "-", "x", "\n", "-", "x">>
    /\ analysis.whyViral = <<"x">> /\ Len(analysis.shootIdeas) = 2
    /\ ~analysis.hasFullResponse /\ analysis.fullResponse = <<>>


\* the sections the reply is split into
Sections == SplitSections(input.content, <<>>)

\* the order as stated: viral alone selects whyViral
ClaimedClassOf(section) ==
    IF Includes(section, "viral") THEN "whyViral"
    ELSE IF Includes(section, "photo") \/ Includes(section, "shoot") THEN "shootIdeas"
    ELSE IF Includes(section, "pr") \/ Includes(section, "campaign") THEN "prOutline"
    ELSE IF Includes(section, "takeaway") \/ Includes(section, "lesson") THEN "keyTakeaways"
    ELSE "none"

\* the order with whyViral selected by why and viral together
ClassOf(section) ==
    IF Includes(section, "why") /\ Includes(section, "viral") THEN "whyViral"
    ELSE IF Includes(section, "photo") \/ Includes(section, "shoot") THEN "shootIdeas"
    ELSE IF Includes(section, "pr") \/ Includes(section, "campaign") THEN "prOutline"
    ELSE IF Includes(section, "takeaway") \/ Includes(section, "lesson") THEN "keyTakeaways"
    ELSE "none"

\* what a section assigned to field f contributes
Extract(f, section) ==
    CASE f = "whyViral" -> StripLabel(section)
      [] f = "shootIdeas" -> Take(ListItems(section, FALSE), MaxShootIdeas)
      [] f = "prOutline" -> ListItems(section, TRUE)
      [] f = "keyTakeaways" -> Take(ListItems(section, FALSE), MaxKeyTakeaways)

\* the value of field f when each section goes to the one field class names:
\* that of the last section assigned to f, or empty
FieldFrom(class(_), f) ==
    LET hits == {i \in DOMAIN Sections : class(Sections[i]) = f}
    IN IF hits = {} THEN <<>>
       ELSE Extract(f, Sections[CHOOSE i \in hits : \A j \in hits : j <= i])

\* the result is the one the classification class gives
ClassifiedBy(class(_)) ==
    LET why == FieldFrom(class, "whyViral")
        shoot == FieldFrom(class, "shootIdeas")
    IN IF why = <<>> /\ shoot = <<>> THEN FallbackResult
       ELSE /\ analysis.whyViral = why
            /\ analysis.shootIdeas = shoot
            /\ analysis.prOutline = FieldFrom(class, "prOutline")
            /\ analysis.keyTakeaways = FieldFrom(class, "keyTakeaways")
            /\ ~analysis.hasFullResponse

\* C26 as stated: each section goes to at most one field, the first that
\* matches in the order viral, photo or shoot, pr or campaign, takeaway or
\* lesson.
C26_ViralFirst ==
    RecoveryUsed => ClassifiedBy(ClaimedClassOf)

\* C26 amended: each section goes to at most one field, the first that matches
\* in the order: why and viral together, photo or shoot, pr or campaign,
\* takeaway or lesson; a section that mentions viral without why is
\* classified by the later keywords.
C26_WhyAndViralFirst ==
    RecoveryUsed => ClassifiedBy(ClassOf)

\* a section that mentions viral and photo but not why became shootIdeas
C26_Witness ==
    /\ RecoveryUsed
    /\ input.content = <<"viral", "photo", "\n", "-", "x">>
    /\ analysis.shootIdeas = <<<<"x">>>> /\ analysis.whyViral = <<>>
    /\ ~analysis.hasFullResponse

----------------------------------------------------------------------------
(* PR step numbering, under SpecEnhance                                    *)

\* the day ranges as the specification lists them
DayRanges ==
    <<"Day 1-2", "Day 3-5", "Day 6-10", "Day 11-14", "Day 15-21", "Day 22-30">>

\* C27: for a prOutline of n >= 1 entries the k-th enhanced step has step = k
\* and the timeline at position min(k, 6) of the day-range table.
C27_StepsAndTimelines ==
    (ResultReturned /\ Len(PROutlineOf(memBefore, arg)) >= 1) =>
        LET prOut == PROutlineOf(mem, ret)
        IN /\ Len(prOut) = Len(PROutlineOf(memBefore, arg))
           /\ \A k \in DOMAIN prOut :
                 /\ prOut[k].pick = k
                 /\ prOut[k].timeline = DayRanges[Min(k, 6)]

\* an outline of eight steps was enhanced: the seventh and eighth steps carry
\* the last day range
C27_Witness ==
    /\ ResultReturned
    /\ Len(PROutlineOf(memBefore, arg)) = 8
    /\ PROutlineOf(mem, ret)[6].timeline = "Day 22-30"
    /\ PROutlineOf(mem, ret)[7].pick = 7
    /\ PROutlineOf(mem, ret)[8].timeline = "Day 22-30"

----------------------------------------------------------------------------
(* Properties of save-data, under SpecSave                                 *)

\* the user id a request with x-user-id header h stands for
Requester(h) == IF h # "" THEN h ELSE ClientIp

\* C28: every collection of every user holds at most 100 items after any
\* request and any cleanup run, and a POST that adds a new item to a
\* collection of 100 leaves the new item first, followed by the first 99 of
\* the old items: the item at the end is dropped.
C28_CapKept ==
    /\ [](\A u \in UserIds, c \in CollectionNames : Len(userSavedData[u][c]) <= 100)
    /\ [][(/\ saveReq'.method = "POST" /\ saveResp'.status = 200)
          => LET u == Requester(saveReq'.xUserId)
                 c == Plural(saveReq'.type)
                 held == userSavedData[u][c]
                 item == saveResp'.returned[1]
                 known == \E i \in DOMAIN held :
                             \/ held[i].id = item.id
                             \/ held[i].url # "" /\ held[i].url = item.url
                             \/ held[i].name # "" /\ held[i].name = item.name
             IN (Len(held) = 100 /\ ~known)
                    => userSavedData'[u][c] = <<item>> \o SubSeq(held, 1, 99)]_vars

\* alice had 100 posts and saved a new one: it is first, 100 posts remain and
\* the last is the one that was last but one
C28_Witness ==
    /\ saveReq.method = "POST" /\ saveReq.xUserId = "alice" /\ saveResp.status = 200
    /\ Len(userSavedData["alice"].posts) = 100
    /\ userSavedData["alice"].posts[1] = saveResp.returned[1]
    /\ userSavedData["alice"].posts[1].id = 1
    /\ userSavedData["alice"].posts[100].id = StoredBase + 99

\* C29: no collection of a user holds two items with the same id.  An item
\* that matches one stored item by url and another by id replaces the first
\* and leaves its id twice in the collection.
C29_UniqueIds ==
    \A u \in UserIds, c \in CollectionNames :
        \A i, j \in DOMAIN userSavedData[u][c] :
            userSavedData[u][c][i].id = userSavedData[u][c][j].id => i = j

\* after saving ids 1 and 2 with two urls, id 1 was saved with the url of id 2:
\* two posts have id 1
C29_Witness ==
    /\ saveReq.method = "POST" /\ saveResp.status = 200
    /\ Len(userSavedData["alice"].posts) = 2
    /\ userSavedData["alice"].posts[1].id = 1 /\ userSavedData["alice"].posts[1].url = "u2"
    /\ userSavedData["alice"].posts[2].id = 1 /\ userSavedData["alice"].posts[2].url = "u1"

\* C30: a request leaves the entry of every other user id as it was, the
\* items it returns were all saved under the requester's user id, and a DELETE
\* answered with 400 or 404 changes no user's items.
C30_Isolated ==
    [][saveResp'.status # 0
       => LET who == Requester(saveReq'.xUserId)
          IN /\ \A v \in UserIds \ {who} : userSavedData'[v] = userSavedData[v]
             /\ \A i \in DOMAIN saveResp'.returned :
                   Requester(saveResp'.returned[i].from) = who
             /\ (saveReq'.method = "DELETE" /\ saveResp'.status \in {400, 404})
                   => userSavedData' = userSavedData]_vars

\* alice read her posts while the user without header had a post of its own
C30_Witness ==
    /\ saveReq.method = "GET" /\ saveReq.xUserId = "alice" /\ saveResp.status = 200
    /\ saveResp.returned # <<>>
    /\ saveResp.returned = userSavedData["alice"].posts
    /\ userSavedData[ClientIp].posts # <<>>

============================================================================
